---- MODULE Spec2Model ----
(***************************************************************************)
(* Model of the agent workflow (src/agent/workflow_graph.py), the hybrid   *)
(* retriever (src/retrieval/hybrid_retriever.py, es_client.py), the        *)
(* financial-statement parser (src/data_ingestion/dart_parsers.py), the    *)
(* news client (src/data_ingestion/news_client.py) and the chat server     *)
(* (src/api/chat_server.py, src/agent/tools.py).                           *)
(*                                                                         *)
(* Python values are represented as follows.                               *)
(*  - a dict is a function whose DOMAIN is the set of keys present, so     *)
(*    d.get(k, default) is Get(d, k, default);                             *)
(*  - None is the distinguished string None;                               *)
(*  - a str whose characters matter (the question) is a sequence of        *)
(*    characters, a Hangul syllable being one character named by its       *)
(*    romanisation;                                                        *)
(*  - str(result) and str(e) are represented by their length.              *)
(***************************************************************************)
EXTENDS Integers, Sequences, FiniteSets, TLC

VARIABLES
    state,                \* channels of the compiled StateGraph(AgentState)
    node,                 \* node scheduled for the next superstep
    step,                 \* number of supersteps executed by workflow.invoke
    branch,               \* last value returned by should_continue
    local_iterations,     \* state["iterations"] in call_model's own dict after line 173
    callModelCount,       \* number of call_model executions of this run
    generateAnswerCount,  \* number of generate_answer executions of this run
    tool_log,             \* per tool call of the last call_tools step: request, arguments passed, outputs
    run_log,              \* the tool calls executed so far in this run, in order
    prev_state,           \* channels before the last executed node
    last_node,            \* last executed node
    sparse_response,      \* outcome of the Elasticsearch query of ESClient.search
    dense_response,       \* outcome of the Elasticsearch query of ESClient.knn_search
    sparse,               \* what ESClient.search returned to retrieve
    dense,                \* what ESClient.knn_search returned to retrieve
    alpha,                \* HybridRetriever.alpha, in hundredths
    k,                    \* argument k of retrieve
    results,              \* what retrieve returned
    retrieved,            \* retrieve has returned or raised
    retrieve_raised,      \* retrieve ended with an exception
    rows,                 \* argument of extract_key_metrics: the "list" of a DART answer
    summary,              \* what extract_key_metrics returned
    extracted,            \* extract_key_metrics has returned
    news_response,        \* outcome of NaverNewsClient.search: it raises, or the raw items
    sort,                 \* argument sort of search_dedup
    deduped,              \* what search_dedup returned
    dedup_done,           \* search_dedup has returned or raised
    dedup_raised,         \* search_dedup ended with an exception
    SESSIONS,             \* the session table: session id -> reference to its record
    heap,                 \* the session records ever created, a reference being an index
    reqs,                 \* per request: its body, its position and its local variables
    acting,               \* the request that took the last step and the reference it used
    bulk_args,            \* arguments of tool_get_finstat_bulk and what each fetch does
    bulk_items,           \* what tool_get_finstat_bulk returned
    bulk_returned,        \* tool_get_finstat_bulk has returned
    gen_stream,           \* what llm.stream delivers to gen: its chunks, then its end or an exception
    gen_pos,              \* number of chunks gen has taken from the stream
    gen_events,           \* the events gen has yielded, in order
    gen_pc,               \* position of gen
    sess_record,          \* one session record under a sequence of requests
    sess_body,            \* the body of the last request applied to sess_record
    sess_updates          \* number of requests applied to sess_record

wfvars == <<state, node, step, branch, local_iterations, callModelCount,
            generateAnswerCount, tool_log, run_log, prev_state, last_node>>

rvars == <<sparse_response, dense_response, sparse, dense, alpha, k, results,
           retrieved, retrieve_raised>>

fvars == <<rows, summary, extracted>>

nvars == <<news_response, sort, deduped, dedup_done, dedup_raised>>

svars == <<SESSIONS, heap, reqs, acting>>

bvars == <<bulk_args, bulk_items, bulk_returned>>

gvars == <<gen_stream, gen_pos, gen_events, gen_pc>>

uvars == <<sess_record, sess_body, sess_updates>>

\* ------------------------------------------------------------------ bounds
\* recursion limit of workflow.invoke (number of supersteps after which the
\* graph library raises GraphRecursionError); the library default is 25
RecursionLimit == 5

\* largest iteration counter handed to should_continue on its own
MaxIterations == 3

\* largest k (and so largest number of hits per backend) handed to retrieve
MaxK == 2

\* largest number of rows handed to extract_key_metrics
MaxRows == 2

\* largest number of raw items NaverNewsClient.search returns
MaxItems == 2

\* greatest number of years passed to tool_get_finstat_bulk
MaxYears == 2

\* greatest number of chunks the model stream delivers
MaxChunks == 3

\* greatest number of requests applied to one session record
MaxUpdates == 2

\* ------------------------------------------------------- python primitives
None == "<None>"

Get(d, key, default) == IF key \in DOMAIN d THEN d[key] ELSE default

\* truth value of an optional str
Truthy(v) == v # None /\ v # ""

Min(a, b) == IF a < b THEN a ELSE b

\* sub in q, for str sub and q
Contains(q, sub) ==
    \E i \in 0..(Len(q) - Len(sub)) : \A j \in 1..Len(sub) : q[i + j] = sub[j]

\* d | u for dicts
Override(d, u) ==
    [x \in DOMAIN d \cup DOMAIN u |-> IF x \in DOMAIN u THEN u[x] ELSE d[x]]

\* ------------------------------------------------------------ tool set
search_documents == "search_documents"
get_financial_data == "get_financial_data"
search_company_news == "search_company_news"

tools == {search_documents, get_financial_data, search_company_news}

\* a tool name the model may hallucinate
UnregisteredTool == "get_stock_price"

\* len(tool_name)
NameLen(name) ==
    CASE name = search_documents -> 16
      [] name = get_financial_data -> 18
      [] name = search_company_news -> 19
      [] OTHER -> 15

\* parameters without default in the @tool signatures that call_tools may inject
RequiredArgs(name) ==
    CASE name = get_financial_data -> {"corp_code", "year"}
      [] name = search_company_news -> {"corp_name"}
      [] OTHER -> {}

\* parameters of the @tool signatures that call_tools may inject
ToolParams(name) ==
    CASE name = search_documents -> {"corp_code", "stock_code", "year"}
      [] name = get_financial_data -> {"corp_code", "year"}
      [] name = search_company_news -> {"corp_name"}
      [] OTHER -> {}

\* ------------------------------------------------------------ messages
\* one shape for HumanMessage, AIMessage and ToolMessage; id 0 is "no id yet";
\* content_len is len(content) of a ToolMessage and is not modelled otherwise
HumanMessage ==
    [type |-> "human", id |-> 0, tool_calls |-> <<>>, name |-> None,
     tool_call_id |-> 0, content_len |-> 0]

AIMessage(tool_calls) ==
    [type |-> "ai", id |-> 0, tool_calls |-> tool_calls, name |-> None,
     tool_call_id |-> 0, content_len |-> 0]

ToolMessage(content_len, name, tool_call_id) ==
    [type |-> "tool", id |-> 0, tool_calls |-> <<>>, name |-> name,
     tool_call_id |-> tool_call_id, content_len |-> content_len]

\* hasattr(message, "tool_calls"): only AIMessage declares the attribute
HasToolCalls(m) == m.type = "ai"

\* reducer of the messages channel: a message whose id is already in the
\* history replaces that entry, any other message is appended under a new id
RECURSIVE add_messages(_, _)
add_messages(left, right) ==
    IF right = <<>> THEN left
    ELSE LET m == Head(right)
             hit == {j \in 1..Len(left) : m.id # 0 /\ left[j].id = m.id}
             merged == IF hit # {}
                       THEN [j \in 1..Len(left) |-> IF j \in hit THEN m ELSE left[j]]
                       ELSE Append(left, [m EXCEPT !.id = Len(left) + 1])
         IN add_messages(merged, Tail(right))

\* the graph writes the keys a node returns into the channels
ApplyWrites(s, update) ==
    [x \in DOMAIN s \cup DOMAIN update |->
        IF x \notin DOMAIN update THEN s[x]
        ELSE IF x = "messages" THEN add_messages(Get(s, "messages", <<>>), update[x])
        ELSE update[x]]

\* ------------------------------------------------------------ route_intent
\* "실적", "영업이익", "재무", "매출", "PER", "PBR"
Keywords ==
    { <<"sil", "jeok">>, <<"yeong", "eop", "i", "ik">>, <<"jae", "mu">>,
      <<"mae", "chul">>, <<"P", "E", "R">>, <<"P", "B", "R">> }

\* route_intent with the counter started at the maximum the prompt shows (5)
route_intent_budget(s) ==
    LET q == s["question"]
        company == Get(s, "company", None)
        route == IF Truthy(company) THEN "company"
                 ELSE IF \E kw \in Keywords : Contains(q, kw) THEN "company"
                 ELSE "general"
        s1 == Override(s, [route |-> route])
        s2 == IF Get(s1, "messages", <<>>) = <<>>
              THEN Override(s1, [messages |-> <<HumanMessage>>])
              ELSE s1
    IN Override(s2, [iterations |-> 5])

\* route_intent testing "company is not None" instead of the truth value
route_intent_not_none(s) ==
    LET q == s["question"]
        company == Get(s, "company", None)
        route == IF company # None THEN "company"
                 ELSE IF \E kw \in Keywords : Contains(q, kw) THEN "company"
                 ELSE "general"
        s1 == Override(s, [route |-> route])
        s2 == IF Get(s1, "messages", <<>>) = <<>>
              THEN Override(s1, [messages |-> <<HumanMessage>>])
              ELSE s1
    IN Override(s2, [iterations |-> 0])

\* route_intent storing the display default of the company name in the state
route_intent_default_company(s) ==
    LET q == s["question"]
        company == Get(s, "company", None)
        route == IF Truthy(company) THEN "company"
                 ELSE IF \E kw \in Keywords : Contains(q, kw) THEN "company"
                 ELSE "general"
        s1 == Override(s, [route |-> route,
                           company |-> IF Truthy(company) THEN company ELSE "unspecified"])
        s2 == IF Get(s1, "messages", <<>>) = <<>>
              THEN Override(s1, [messages |-> <<HumanMessage>>])
              ELSE s1
    IN Override(s2, [iterations |-> 0])

route_intent(s) ==
    LET q == s["question"]
        company == Get(s, "company", None)
        route == IF Truthy(company) THEN "company"
                 ELSE IF \E kw \in Keywords : Contains(q, kw) THEN "company"
                 ELSE "general"
        s1 == Override(s, [route |-> route])
        s2 == IF Get(s1, "messages", <<>>) = <<>>
              THEN Override(s1, [messages |-> <<HumanMessage>>])
              ELSE s1
    IN Override(s2, [iterations |-> 0])

\* ------------------------------------------------------------ call_model
\* the dict call_model received, after line 173
call_model_local(s) == Override(s, [iterations |-> Get(s, "iterations", 0) + 1])

\* the dict call_model returns
call_model(s, response) == [messages |-> <<response>>]

\* ------------------------------------------------------------ should_continue
IterationCap == 2

\* should_continue with the cap tested by > instead of >=
should_continue_gt(s) ==
    LET messages == s["messages"]
        last_message == messages[Len(messages)]
        iterations == Get(s, "iterations", 0)
    IN IF iterations > IterationCap THEN "generate_answer"
       ELSE IF HasToolCalls(last_message) /\ last_message.tool_calls # <<>>
            THEN "continue"
       ELSE "generate_answer"

should_continue(s) ==
    LET messages == s["messages"]
        last_message == messages[Len(messages)]
        iterations == Get(s, "iterations", 0)
    IN IF iterations >= IterationCap THEN "generate_answer"
       ELSE IF HasToolCalls(last_message) /\ last_message.tool_calls # <<>>
            THEN "continue"
       ELSE "generate_answer"

\* the two targets of the conditional edge exchanged
EdgeTarget_swapped(b) == IF b = "continue" THEN "generate_answer" ELSE "call_tools"

\* mapping of add_conditional_edges
EdgeTarget(b) == IF b = "continue" THEN "call_tools" ELSE "generate_answer"

\* ------------------------------------------------------------ call_tools
ToolBudget == 500

\* lengths of str(result) for a result a tool returns: an empty list, a
\* result over the budget
ResultLens == {2, 501}

\* lengths of str(e) for an exception a tool raises
ErrorLens == {30, 600}

\* what invoking a registered tool with valid arguments does
Outcomes ==
    [raises : {FALSE}, len : ResultLens] \cup [raises : {TRUE}, len : ErrorLens]

EmptyList == [by |-> 0, strlen |-> 2]
NoneResult == [by |-> 0, strlen |-> 4]

\* bool(result) for a list or dict result
NonEmpty(result) == result.strlen > 2

InitialDataSources ==
    [es_docs |-> EmptyList, dart_financial |-> NoneResult, naver_news |-> EmptyList]

\* injection that does not test whether the model gave the argument
InjectArg_overwrite(args, key, value) ==
    IF Truthy(value) THEN Override(args, key :> value) ELSE args

\* if not tool_args.get(key) and <state value>: tool_args[key] = <state value>
InjectArg(args, key, value) ==
    IF ~Truthy(Get(args, key, None)) /\ Truthy(value)
    THEN Override(args, key :> value)
    ELSE args

\* the arguments a tool is invoked with (lines 202-208, 230-234, 251-253)
inject_args(name, args, s) ==
    CASE name = search_documents ->
            InjectArg(InjectArg(InjectArg(args,
                "corp_code", Get(s, "corp_code", None)),
                "stock_code", Get(s, "stock_code", None)),
                "year", Get(s, "briefing_year", None))
      [] name = get_financial_data ->
            InjectArg(InjectArg(args,
                "corp_code", Get(s, "corp_code", None)),
                "year", Get(s, "briefing_year", None))
      [] name = search_company_news ->
            InjectArg(args, "corp_name", Get(s, "company", None))
      [] OTHER -> args

\* tools_by_name[tool_name].invoke(tool_args): the lookup raises KeyError for
\* a name that is not registered, the argument schema rejects a missing
\* required argument, otherwise the tool does what the environment decides
invoke(name, args, outcome) ==
    IF name \notin tools
    THEN [raises |-> TRUE, len |-> NameLen(name) + 2, called |-> FALSE]
    ELSE IF \E a \in RequiredArgs(name) : Get(args, a, None) = None
    THEN [raises |-> TRUE, len |-> outcome.len, called |-> FALSE]
    ELSE [raises |-> outcome.raises, len |-> outcome.len, called |-> TRUE]

\* str(result)[:500]
result_content_len(result) == Min(result.strlen, ToolBudget)

\* len(f"Error executing {tool_name}: {str(e)}")
error_content_len(name, errlen) == 16 + NameLen(name) + 2 + errlen

\* the iteration writing the state field of the tool even when the call raised
call_one_tool_write_on_failure(acc, tool_call, outcome) ==
    LET name == tool_call.name
        args == inject_args(name, tool_call.args, acc.st)
        res == invoke(name, args, outcome)
        result == [by |-> tool_call.id, strlen |-> res.len]
        ds == acc.st["data_sources"]
        st2 == CASE name = search_documents ->
                      Override(acc.st, [retrieved_docs |-> result,
                                        data_sources |-> [ds EXCEPT !.es_docs = result]])
                 [] name = get_financial_data ->
                      Override(acc.st, [financial |-> result,
                                        data_sources |-> IF NonEmpty(result)
                                                         THEN [ds EXCEPT !.dart_financial = result]
                                                         ELSE ds])
                 [] name = search_company_news ->
                      Override(acc.st, [news_items |-> result,
                                        data_sources |-> [ds EXCEPT !.naver_news = result]])
                 [] OTHER -> acc.st
        message == IF res.raises
                   THEN ToolMessage(error_content_len(name, res.len), name, tool_call.id)
                   ELSE ToolMessage(result_content_len(result), name, tool_call.id)
    IN [st |-> st2,
        outputs |-> Append(acc.outputs, message),
        log |-> Append(acc.log, [call |-> tool_call, args |-> args,
                                 raised |-> res.raises, called |-> res.called,
                                 len |-> res.len, message |-> message])]

\* one iteration of the for loop of call_tools (lines 196-295)
call_one_tool(acc, tool_call, outcome) ==
    LET name == tool_call.name
        args == inject_args(name, tool_call.args, acc.st)
        res == invoke(name, args, outcome)
        result == [by |-> tool_call.id, strlen |-> res.len]
        ds == acc.st["data_sources"]
        st2 == CASE name = search_documents ->
                      Override(acc.st, [retrieved_docs |-> result,
                                        data_sources |-> [ds EXCEPT !.es_docs = result]])
                 [] name = get_financial_data ->
                      Override(acc.st, [financial |-> result,
                                        data_sources |-> IF NonEmpty(result)
                                                         THEN [ds EXCEPT !.dart_financial = result]
                                                         ELSE ds])
                 [] name = search_company_news ->
                      Override(acc.st, [news_items |-> result,
                                        data_sources |-> [ds EXCEPT !.naver_news = result]])
                 [] OTHER -> acc.st
        message == IF res.raises
                   THEN ToolMessage(error_content_len(name, res.len), name, tool_call.id)
                   ELSE ToolMessage(result_content_len(result), name, tool_call.id)
    IN [st |-> IF res.raises THEN acc.st ELSE st2,
        outputs |-> Append(acc.outputs, message),
        log |-> Append(acc.log, [call |-> tool_call, args |-> args,
                                 raised |-> res.raises, called |-> res.called,
                                 len |-> res.len, message |-> message])]

\* the loop with the try around all of it: the first call that raises ends it
RECURSIVE call_tools_loop_abort(_, _, _)
call_tools_loop_abort(acc, tool_calls, outcomes) ==
    IF tool_calls = <<>> THEN acc
    ELSE LET next == call_one_tool(acc, Head(tool_calls), Head(outcomes))
         IN IF next.log[Len(next.log)].raised THEN next
            ELSE call_tools_loop_abort(next, Tail(tool_calls), Tail(outcomes))

RECURSIVE call_tools_loop(_, _, _)
call_tools_loop(acc, tool_calls, outcomes) ==
    IF tool_calls = <<>> THEN acc
    ELSE call_tools_loop(call_one_tool(acc, Head(tool_calls), Head(outcomes)),
                         Tail(tool_calls), Tail(outcomes))

\* the dict call_tools received when it reaches line 297, its outputs and the log
call_tools_run(s, outcomes) ==
    LET last_message == s["messages"][Len(s["messages"])]
        s0 == IF "data_sources" \in DOMAIN s THEN s
              ELSE Override(s, [data_sources |-> InitialDataSources])
    IN call_tools_loop([st |-> s0, outputs |-> <<>>, log |-> <<>>],
                       last_message.tool_calls, outcomes)

\* the dict call_tools returns (lines 298-304)
call_tools(s, outcomes) ==
    LET run == call_tools_run(s, outcomes)
    IN [messages |-> run.outputs,
        retrieved_docs |-> Get(run.st, "retrieved_docs", EmptyList),
        financial |-> Get(run.st, "financial", NoneResult),
        news_items |-> Get(run.st, "news_items", EmptyList),
        data_sources |-> run.st["data_sources"]]

\* tool_args is the args dict of the AIMessage held by the messages channel:
\* the injection of lines 203-253 is visible in the history
args_in_history(s, log) ==
    LET n == Len(s["messages"])
        last_message == s["messages"][n]
        calls == [i \in 1..Len(log) |-> [last_message.tool_calls[i] EXCEPT !.args = log[i].args]]
    IN Override(s, [messages |-> [s["messages"] EXCEPT ![n].tool_calls = calls]])

\* ------------------------------------------------------------ generate_answer
\* the dict generate_answer returns
generate_answer(s, text) == Override(s, [answer |-> text])

\* ------------------------------------------------------------ inputs
\* "SUPER", "per P ER", "매출 전망"
Questions ==
    { <<"S", "U", "P", "E", "R">>,
      <<"p", "e", "r", " ", "P", " ", "E", "R">>,
      <<"mae", "chul", " ", "jeon", "mang">> }

\* (company, corp_code, stock_code, briefing_year) as the callers set them:
\* nothing known, an empty company name, a company name only, everything
\* known, codes without a year
Entities ==
    { <<None, None, None, None>>,
      <<"", None, None, None>>,
      <<"Acme", None, None, None>>,
      <<"Acme", "00126380", "005930", "2024">>,
      <<None, "00126380", None, None>> }

\* the dict the callers pass to workflow.invoke, with the empty messages channel
InitialState(question, company, corp_code, stock_code, year) ==
    [question |-> question,
     company |-> company,
     corp_code |-> corp_code,
     stock_code |-> stock_code,
     retrieved_docs |-> EmptyList,
     answer |-> None,
     route |-> None,
     briefing_year |-> year,
     briefing_year_mode |-> IF Truthy(year) THEN "selected" ELSE "latest",
     messages |-> <<>>]

\* argument dicts the model may send for a tool: the injectable arguments all
\* omitted, all empty, or all given
NoArgs == [x \in {} |-> ""]

ArgChoices(name) ==
    {NoArgs} \cup {[x \in ToolParams(name) |-> v] : v \in {"", "model_value"}}

RequestChoices ==
    UNION {{[name |-> n, args |-> a] : a \in ArgChoices(n)} : n \in tools} \cup
    {[name |-> UnregisteredTool, args |-> NoArgs]}

\* the lists of tool calls a model response may carry
ModelResponses ==
    {<<>>} \cup {<<r>> : r \in RequestChoices} \cup
    { << [name |-> UnregisteredTool, args |-> NoArgs],
         [name |-> search_documents, args |-> NoArgs] >>,
      << [name |-> get_financial_data, args |-> NoArgs],
         [name |-> search_company_news,
          args |-> [x \in ToolParams(search_company_news) |-> "model_value"]] >> }

\* the tool calls of the n-th response, with their ids
WithIds(requests, n) ==
    [i \in 1..Len(requests) |->
        [name |-> requests[i].name, args |-> requests[i].args, id |-> 10 * n + i]]

\* ------------------------------------------------------------ the run
\* the graph schedules the next node, stops at END, and gives up when the
\* recursion limit is reached with a node still pending
Schedule(next) ==
    /\ step' = step + 1
    /\ node' = IF next = "END" THEN "END"
               ELSE IF step + 1 >= RecursionLimit THEN "GraphRecursionError"
               ELSE next

InitRun ==
    /\ \E q \in Questions, e \in Entities :
          state = InitialState(q, e[1], e[2], e[3], e[4])
    /\ node = "route_intent"
    /\ step = 0
    /\ branch = None
    /\ local_iterations = 0
    /\ callModelCount = 0
    /\ generateAnswerCount = 0
    /\ tool_log = <<>>
    /\ run_log = <<>>
    /\ prev_state = state
    /\ last_node = "START"

RouteIntent ==
    /\ node = "route_intent"
    /\ state' = ApplyWrites(state, route_intent(state))
    /\ Schedule("call_model")
    /\ prev_state' = state
    /\ last_node' = "route_intent"
    /\ tool_log' = <<>>
    /\ UNCHANGED run_log
    /\ UNCHANGED <<branch, local_iterations, callModelCount, generateAnswerCount>>

CallModel ==
    /\ node = "call_model"
    /\ \E requests \in ModelResponses :
          LET response == AIMessage(WithIds(requests, callModelCount + 1))
              written == ApplyWrites(state, call_model(state, response))
          IN /\ state' = written
             /\ branch' = should_continue(written)
             /\ Schedule(EdgeTarget(should_continue(written)))
    /\ local_iterations' = call_model_local(state)["iterations"]
    /\ callModelCount' = callModelCount + 1
    /\ prev_state' = state
    /\ last_node' = "call_model"
    /\ tool_log' = <<>>
    /\ UNCHANGED run_log
    /\ UNCHANGED generateAnswerCount

CallTools ==
    /\ node = "call_tools"
    /\ LET n == Len(state["messages"][Len(state["messages"])].tool_calls)
       IN \E outcomes \in [1..n -> Outcomes] :
             LET run == call_tools_run(state, outcomes)
             IN /\ state' = ApplyWrites(args_in_history(state, run.log),
                                        call_tools(state, outcomes))
                /\ tool_log' = run.log
                /\ run_log' = run_log \o run.log
    /\ Schedule("call_model")
    /\ prev_state' = state
    /\ last_node' = "call_tools"
    /\ UNCHANGED <<branch, local_iterations, callModelCount, generateAnswerCount>>

GenerateAnswer ==
    /\ node = "generate_answer"
    /\ state' = ApplyWrites(state, generate_answer(state, "report"))
    /\ Schedule("END")
    /\ generateAnswerCount' = generateAnswerCount + 1
    /\ prev_state' = state
    /\ last_node' = "generate_answer"
    /\ tool_log' = <<>>
    /\ UNCHANGED run_log
    /\ UNCHANGED <<branch, local_iterations, callModelCount>>

\* ------------------------------------------------------------ should_continue alone
IdleRun ==
    /\ state = NoArgs
    /\ node = "idle"
    /\ step = 0
    /\ branch = None
    /\ local_iterations = 0
    /\ callModelCount = 0
    /\ generateAnswerCount = 0
    /\ tool_log = <<>>
    /\ run_log = <<>>
    /\ prev_state = NoArgs
    /\ last_node = "START"

\* the messages that can be last in the history when the edge is evaluated
LastMessages ==
    {HumanMessage, ToolMessage(2, search_documents, 11)} \cup
    {AIMessage(WithIds(requests, 1)) : requests \in ModelResponses}

InitEdge ==
    /\ \E m \in LastMessages :
          \/ state = [messages |-> <<m>>]
          \/ \E i \in 0..MaxIterations : state = [messages |-> <<m>>, iterations |-> i]
    /\ node = "should_continue"
    /\ step = 0
    /\ branch = None
    /\ local_iterations = 0
    /\ callModelCount = 0
    /\ generateAnswerCount = 0
    /\ tool_log = <<>>
    /\ run_log = <<>>
    /\ prev_state = state
    /\ last_node = "START"

ShouldContinue ==
    /\ node = "should_continue"
    /\ branch' = should_continue(state)
    /\ node' = EdgeTarget(should_continue(state))
    /\ last_node' = "should_continue"
    /\ UNCHANGED <<state, step, local_iterations, callModelCount,
                   generateAnswerCount, tool_log, run_log,
                   prev_state>>

\* ------------------------------------------------------------ HybridRetriever
\* documents of the search indices: text and the rest of _source; two
\* distinct documents share their text
Docs ==
    { [text |-> "t1", metadata |-> "news-1"],
      [text |-> "t1", metadata |-> "finstat-2"],
      [text |-> "t2", metadata |-> "news-3"] }

Scores == {1, 2}

Hits == [score : Scores, doc : Docs]

\* a backend returns at most size hits and no document twice
HitLists(size) ==
    {h \in UNION {[1..n -> Hits] : n \in 0..size} :
        \A i, j \in 1..Len(h) : i # j => h[i].doc # h[j].doc}

\* dense_map.get(text, {}).get("score", 0.0): a later hit replaces an
\* earlier one with the same text
dense_map_score(D, text) ==
    LET idx == {i \in 1..Len(D) : D[i].doc.text = text}
    IN IF idx = {} THEN 0
       ELSE D[CHOOSE i \in idx : \A j \in idx : j <= i].score

RetrievedDoc(text, metadata, hybrid_score, sparse_score, dense_score) ==
    [text |-> text, metadata |-> metadata, hybrid_score |-> hybrid_score,
     sparse_score |-> sparse_score, dense_score |-> dense_score]

\* lines 63-77; hybrid_score is in hundredths, as alpha is
from_sparse(S, D, a) ==
    [i \in 1..Len(S) |->
        LET sparse_score == S[i].score
            dense_score == dense_map_score(D, S[i].doc.text)
        IN RetrievedDoc(S[i].doc.text, S[i].doc.metadata,
                        a * sparse_score + (100 - a) * dense_score,
                        sparse_score, dense_score)]

\* a dense-only document scored as if it were a sparse hit
dense_doc_as_sparse(d, a) ==
    RetrievedDoc(d.doc.text, d.doc.metadata, a * d.score, d.score, 0)

\* a dense-only document scored without the (1 - alpha) weight
dense_doc_unweighted(d, a) ==
    RetrievedDoc(d.doc.text, d.doc.metadata, 100 * d.score, 0, d.score)

\* lines 98-110 and 85-95
dense_doc(d, a) ==
    RetrievedDoc(d.doc.text, d.doc.metadata, (100 - a) * d.score, 0, d.score)

\* lines 80-95
RECURSIVE dense_only(_, _, _)
dense_only(S, D, a) ==
    IF D = <<>> THEN <<>>
    ELSE LET sparse_texts == {S[i].doc.text : i \in 1..Len(S)}
             rest == dense_only(S, Tail(D), a)
         IN IF Head(D).doc.text \in sparse_texts THEN rest
            ELSE <<dense_doc(Head(D), a)>> \o rest

\* the list left in the order of the merge
sort_skipped(r) == r

\* results.sort(key=hybrid_score, reverse=True): stable, equal scores keep
\* their order
RECURSIVE sort_desc(_)
sort_desc(r) ==
    IF r = <<>> THEN <<>>
    ELSE LET sorted == sort_desc(SubSeq(r, 1, Len(r) - 1))
             x == r[Len(r)]
             n == Cardinality({i \in 1..Len(sorted) : sorted[i].hybrid_score >= x.hybrid_score})
         IN SubSeq(sorted, 1, n) \o <<x>> \o SubSeq(sorted, n + 1, Len(sorted))

\* lines 52-110
merge(S, D, a) ==
    IF S # <<>>
    THEN from_sparse(S, D, a) \o dense_only(S, D, a)
    ELSE [i \in 1..Len(D) |-> dense_doc(D[i], a)]

retrieve(S, D, a, kk) ==
    LET sorted == sort_desc(merge(S, D, a))
    IN SubSeq(sorted, 1, Min(kk, Len(sorted)))

\* 0.5 is the default of the constructor, 0.6 the value tool_hybrid_search
\* passes; 1.0 is sparse only
Alphas == {50, 60, 100}

\* what self.es.search(index=..., body=..., size=size) does: it raises, or it
\* answers with at most size hits
Responses(size) ==
    [raises : {TRUE}, hits : {<<>>}] \cup [raises : {FALSE}, hits : HitLists(size)]

Returned(value) == [raised |-> FALSE, value |-> value]

\* the query without the try around it: its exception leaves the method
ESClient_search_reraise(response) ==
    [raised |-> response.raises, value |-> response.hits]

\* es_client.py lines 122-135
ESClient_search(response) ==
    IF response.raises THEN Returned(<<>>) ELSE Returned(response.hits)

\* es_client.py lines 184-196
ESClient_knn_search(response) ==
    IF response.raises THEN Returned(<<>>) ELSE Returned(response.hits)

IdleRetriever ==
    /\ sparse_response = [raises |-> FALSE, hits |-> <<>>]
    /\ dense_response = [raises |-> FALSE, hits |-> <<>>]
    /\ sparse = <<>>
    /\ dense = <<>>
    /\ alpha = 50
    /\ k = 1
    /\ results = <<>>
    /\ retrieved = FALSE
    /\ retrieve_raised = FALSE

InitRetrieve ==
    /\ alpha \in Alphas
    /\ k \in 1..MaxK
    /\ sparse_response \in Responses(k)
    /\ dense_response \in Responses(k)
    /\ sparse = <<>>
    /\ dense = <<>>
    /\ results = <<>>
    /\ retrieved = FALSE
    /\ retrieve_raised = FALSE

\* HybridRetriever.retrieve, lines 25-114: both searches, the merge, the sort
\* and the cut; an exception leaving a search leaves retrieve
Retrieve ==
    /\ ~retrieved
    /\ LET s == ESClient_search(sparse_response)
           d == ESClient_knn_search(dense_response)
       IN IF s.raised \/ d.raised
          THEN /\ retrieve_raised' = TRUE
               /\ UNCHANGED <<sparse, dense, results>>
          ELSE /\ retrieve_raised' = FALSE
               /\ sparse' = s.value
               /\ dense' = d.value
               /\ results' = retrieve(s.value, d.value, alpha, k)
    /\ retrieved' = TRUE
    /\ UNCHANGED <<sparse_response, dense_response, alpha, k>>

\* ---------------------------------------------------- extract_key_metrics
\* an Optional[int]: None is the empty sequence, an int n is <<n>>
NoInt == <<>>

Some(n) == <<n>>

Digits == {"0", "1", "2", "3", "4", "5", "6", "7", "8", "9"}

DigitValue(c) ==
    CASE c = "0" -> 0 [] c = "1" -> 1 [] c = "2" -> 2 [] c = "3" -> 3
      [] c = "4" -> 4 [] c = "5" -> 5 [] c = "6" -> 6 [] c = "7" -> 7
      [] c = "8" -> 8 [] c = "9" -> 9

\* s.replace(c, "")
Remove(s, c) == SelectSeq(s, LAMBDA x : x # c)

\* s.strip() for blanks
RECURSIVE strip(_)
strip(s) ==
    IF s = <<>> THEN s
    ELSE IF Head(s) = " " THEN strip(Tail(s))
    ELSE IF s[Len(s)] = " " THEN strip(SubSeq(s, 1, Len(s) - 1))
    ELSE s

RECURSIVE DigitsValue(_)
DigitsValue(s) ==
    IF s = <<>> THEN 0
    ELSE 10 * DigitsValue(SubSeq(s, 1, Len(s) - 1)) + DigitValue(s[Len(s)])

\* int(float(s)) for a decimal numeral with optional sign and fraction:
\* truncation towards zero; anything else makes float raise
int_float(s) ==
    LET signed == s # <<>> /\ Head(s) \in {"-", "+"}
        body == IF signed THEN Tail(s) ELSE s
        dots == {i \in 1..Len(body) : body[i] = "."}
        point == IF dots = {} THEN Len(body) + 1 ELSE CHOOSE i \in dots : TRUE
        whole == SubSeq(body, 1, point - 1)
        fraction == SubSeq(body, point + 1, Len(body))
        numeral == /\ Cardinality(dots) <= 1
                   /\ Len(whole) + Len(fraction) > 0
                   /\ \A i \in 1..Len(whole) : whole[i] \in Digits
                   /\ \A i \in 1..Len(fraction) : fraction[i] \in Digits
    IN IF ~numeral THEN NoInt
       ELSE IF signed /\ Head(s) = "-" THEN Some(0 - DigitsValue(whole))
       ELSE Some(DigitsValue(whole))

\* _parse_int of a str, lines 18-24
parse_int(amount) ==
    LET s == strip(Remove(amount, ","))
    IN IF s \in {<<>>, <<"-">>, <<"N", "a", "N">>} THEN NoInt ELSE int_float(s)

\* _parse_int(row.get(key)): a key the row lacks is None, lines 16-17
parse_amount(row, key) ==
    IF key \in DOMAIN row THEN parse_int(row[key]) ELSE NoInt

\* (row.get("account_nm") or "").replace(" ", ""), line 73
account_name(row) ==
    IF "account_nm" \in DOMAIN row THEN Remove(row["account_nm"], " ") ELSE <<>>

\* the six fields in the order of the if/elif chain, each with the
\* substrings looked for in the account name
FieldChain ==
    << [field |-> "assets", names |-> {<<"ja", "san", "chong", "gye">>}],
       [field |-> "liabilities", names |-> {<<"bu", "chae", "chong", "gye">>}],
       [field |-> "equity", names |-> {<<"ja", "bon", "chong", "gye">>}],
       [field |-> "revenue", names |-> {<<"mae", "chul", "aek">>,
                                        <<"su", "ik", "(", "mae", "chul", "aek", ")">>}],
       [field |-> "operating_income", names |-> {<<"yeong", "eop", "i", "ik">>}],
       [field |-> "net_income", names |-> {<<"dang", "gi", "sun", "i", "ik">>}] >>

Fields == {FieldChain[i].field : i \in 1..Len(FieldChain)}

\* the condition of one branch of the chain
NameMatches(account_nm, i) ==
    \E name \in FieldChain[i].names : Contains(account_nm, name)

\* the branch of the chain a row enters: the first whose condition holds,
\* 0 when none does
Branch(account_nm) ==
    LET hits == {i \in 1..Len(FieldChain) : NameMatches(account_nm, i)}
    IN IF hits = {} THEN 0 ELSE CHOOSE i \in hits : \A j \in hits : i <= j

Amounts(th, fr, bf) == [th |-> th, fr |-> fr, bf |-> bf]

\* lines 63-70
EmptySummary == [f \in Fields |-> Amounts(NoInt, NoInt, NoInt)]

\* the loop body without the guard on the field being empty
extract_row_overwrite(acc, row) ==
    LET th == parse_amount(row, "thstrm_amount")
        fr == parse_amount(row, "frmtrm_amount")
        bf == parse_amount(row, "bfefrmtrm_amount")
        b == Branch(account_name(row))
    IN IF b = 0 \/ th = NoInt THEN acc
       ELSE [acc EXCEPT ![FieldChain[b].field] = Amounts(th, fr, bf)]

\* the loop body, lines 73-117
extract_row(acc, row) ==
    LET th == parse_amount(row, "thstrm_amount")
        fr == parse_amount(row, "frmtrm_amount")
        bf == parse_amount(row, "bfefrmtrm_amount")
        b == Branch(account_name(row))
    IN IF b = 0 THEN acc
       ELSE IF acc[FieldChain[b].field].th = NoInt /\ th # NoInt
            THEN [acc EXCEPT ![FieldChain[b].field] = Amounts(th, fr, bf)]
            ELSE acc

RECURSIVE extract_loop(_, _)
extract_loop(acc, rest) ==
    IF rest = <<>> THEN acc
    ELSE extract_loop(extract_row(acc, Head(rest)), Tail(rest))

extract_key_metrics(rs) == extract_loop(EmptySummary, rs)

\* account names of DART rows: total assets, total liabilities written with
\* a blank, total of liabilities and equity, revenue in its long form,
\* operating income, net income (loss), a ratio naming both revenue and
\* operating income
AccountNames ==
    { <<"ja", "san", "chong", "gye">>,
      <<"bu", "chae", " ", "chong", "gye">>,
      <<"bu", "chae", "wa", "ja", "bon", "chong", "gye">>,
      <<"su", "ik", "(", "mae", "chul", "aek", ")">>,
      <<"yeong", "eop", "i", "ik">>,
      <<"dang", "gi", "sun", "i", "ik", "(", "son", "sil", ")">>,
      <<"mae", "chul", "aek", "yeong", "eop", "i", "ik", "ryul">> }

\* current-period amounts as DART writes them: a dash for no amount, a
\* plain numeral, a numeral with thousands separators
CurrentAmounts == { <<"-">>, <<"1", "0", "0">>, <<"1", ",", "2", "0", "0">> }

\* prior-period amount: negative, with a fraction and a leading blank
PriorAmounts == { <<" ", "-", "5", ".", "7">> }

\* a row has or lacks account_nm; the rows with the separated numeral also
\* have frmtrm_amount; bfefrmtrm_amount is lacking
RowChoices ==
    LET named == [account_nm : AccountNames, thstrm_amount : CurrentAmounts]
        unnamed == [thstrm_amount : CurrentAmounts]
        with_prior(r) == [x \in DOMAIN r \cup {"frmtrm_amount"} |->
                            IF x = "frmtrm_amount"
                            THEN CHOOSE a \in PriorAmounts : TRUE ELSE r[x]]
    IN {IF Len(r["thstrm_amount"]) > 3 THEN with_prior(r) ELSE r :
            r \in named \cup unnamed}

IdleFinstat ==
    /\ rows = <<>>
    /\ summary = EmptySummary
    /\ extracted = FALSE

InitExtract ==
    /\ rows \in UNION {[1..n -> RowChoices] : n \in 0..MaxRows}
    /\ summary = EmptySummary
    /\ extracted = FALSE

ExtractKeyMetrics ==
    /\ ~extracted
    /\ summary' = extract_key_metrics(rows)
    /\ extracted' = TRUE
    /\ UNCHANGED rows

\* ------------------------------------------------------------ news_client
\* the characters of the strings compared below, in code point order
CharOrder ==
    << " ", ",", "0", "1", "2", "3", "4", "5", "6", "7", "8", "9",
       "M", "W", "d", "e", "n", "o" >>

CodePoint(c) == CHOOSE i \in 1..Len(CharOrder) : CharOrder[i] = c

\* a < b for two str: the first differing character decides, a proper
\* prefix is smaller
RECURSIVE StrLess(_, _)
StrLess(a, b) ==
    IF b = <<>> THEN FALSE
    ELSE IF a = <<>> THEN TRUE
    ELSE IF Head(a) = Head(b) THEN StrLess(Tail(a), Tail(b))
    ELSE CodePoint(Head(a)) < CodePoint(Head(b))

\* a URL as urlparse splits it; the empty str and a lacking value are NoUrl
Url(scheme, netloc, path, query) ==
    [scheme |-> scheme, netloc |-> netloc, path |-> path, query |-> query]

NoUrl == Url("", <<>>, "", "")

\* str.lower() of one label of a host name
LowerLabel(label) ==
    CASE label = "M" -> "m"
      [] label = "News" -> "news"
      [] OTHER -> label

\* _canonical_url, lines 39-52; None is NoUrl
canonical_url(u) ==
    IF u = NoUrl THEN NoUrl
    ELSE LET scheme == IF u.scheme = "" THEN "https" ELSE u.scheme
             lowered == [i \in 1..Len(u.netloc) |-> LowerLabel(u.netloc[i])]
             netloc == IF Len(lowered) > 1 /\ lowered[1] = "m"
                       THEN Tail(lowered) ELSE lowered
             path == IF u.path = "" THEN "/" ELSE u.path
         IN Url(scheme, netloc, path, "")

\* a title is a sequence of characters, a word counting as one character;
\* re.sub(r"\s+", " ", s).strip()
RECURSIVE collapse(_)
collapse(s) ==
    IF s = <<>> THEN s
    ELSE LET rest == collapse(Tail(s))
         IN IF Head(s) # " " THEN <<Head(s)>> \o rest
            ELSE IF rest = <<>> \/ Head(rest) = " " THEN rest
            ELSE <<" ">> \o rest

normalize_blanks(s) == strip(collapse(s))

TagChars == {"<b>", "</b>"}

\* _strip_html, lines 14-24
strip_html(text) ==
    normalize_blanks([i \in 1..Len(text) |->
        IF text[i] \in TagChars THEN " "
        ELSE IF text[i] = "&amp;" THEN "&" ELSE text[i]])

Opening == {"(", "[", "{"}

Closing == {")", "]", "}"}

\* re.sub(r"[\(\[\{].*?[\)\]\}]", " ", t): from an opening bracket to
\* the next closing bracket of any kind
RECURSIVE drop_brackets(_)
drop_brackets(t) ==
    IF t = <<>> THEN t
    ELSE IF Head(t) \in Opening
         THEN LET closes == {i \in 2..Len(t) : t[i] \in Closing}
              IN IF closes = {} THEN <<Head(t)>> \o drop_brackets(Tail(t))
                 ELSE LET c == CHOOSE i \in closes : \A j \in closes : i <= j
                      IN <<" ">> \o drop_brackets(SubSeq(t, c + 1, Len(t)))
    ELSE <<Head(t)>> \o drop_brackets(Tail(t))

Punctuation == {"!", "&", "(", "[", "{", ")", "]", "}"}

LowerWord(w) ==
    CASE w = "Earnings" -> "earnings"
      [] w = "Outlook" -> "outlook"
      [] OTHER -> w

\* _normalize_title, lines 27-36
normalize_title(title) ==
    LET t == drop_brackets(strip_html(title))
        kept == [i \in 1..Len(t) |-> IF t[i] \in Punctuation THEN " " ELSE t[i]]
        spaced == normalize_blanks(kept)
    IN [i \in 1..Len(spaced) |-> LowerWord(spaced[i])]

\* it.get(key, "") for the str fields of a raw item
Field(it, key) == IF key \in DOMAIN it THEN it[key] ELSE <<>>

\* it.get("originallink") and it.get("link")
Link(it, key) == IF key \in DOMAIN it THEN it[key] ELSE NoUrl

\* _canonical_url(it.get("originallink")) or _canonical_url(it.get("link"))
item_canon(it) ==
    IF canonical_url(Link(it, "originallink")) # NoUrl
    THEN canonical_url(Link(it, "originallink"))
    ELSE canonical_url(Link(it, "link"))

\* the key taken from originallink or the title, link being ignored
bucket_key_no_link(it) ==
    IF canonical_url(Link(it, "originallink")) # NoUrl
    THEN [canon |-> canonical_url(Link(it, "originallink")), title |-> <<>>]
    ELSE [canon |-> NoUrl, title |-> normalize_title(Field(it, "title"))]

\* the key of the bucket of an item, line 120
bucket_key(it) ==
    IF item_canon(it) # NoUrl
    THEN [canon |-> item_canon(it), title |-> <<>>]
    ELSE [canon |-> NoUrl, title |-> normalize_title(Field(it, "title"))]

\* sorted(items, key=str(pubDate), reverse=True): stable
RECURSIVE sorted_by_pubDate(_)
sorted_by_pubDate(items) ==
    IF items = <<>> THEN <<>>
    ELSE LET sorted == sorted_by_pubDate(SubSeq(items, 1, Len(items) - 1))
             x == items[Len(items)]
             n == Cardinality({i \in 1..Len(sorted) :
                     ~StrLess(Field(sorted[i], "pubDate"), Field(x, "pubDate"))})
         IN SubSeq(sorted, 1, n) \o <<x>> \o SubSeq(sorted, n + 1, Len(sorted))

\* the first item of the group taken whatever its date
pick_first(group) == group[1]

\* _pick_latest, lines 55-59
pick_latest(group) == sorted_by_pubDate(group)[1]

\* buckets after the loop of lines 118-121: a dict keeps its keys in the
\* order of their first insertion
RECURSIVE bucket_keys(_)
bucket_keys(items) ==
    IF items = <<>> THEN <<>>
    ELSE LET before == bucket_keys(SubSeq(items, 1, Len(items) - 1))
             key == bucket_key(items[Len(items)])
         IN IF \E i \in 1..Len(before) : before[i] = key THEN before
            ELSE Append(before, key)

bucket(items, key) == SelectSeq(items, LAMBDA it : bucket_key(it) = key)

\* lines 132-135
with_ui_fields(it) ==
    [x \in DOMAIN it \cup {"title_norm", "description_clean", "canonical_url"} |->
        CASE x = "title_norm" -> normalize_title(Field(it, "title"))
          [] x = "description_clean" -> strip_html(Field(it, "description"))
          [] x = "canonical_url" -> item_canon(it)
          [] OTHER -> it[x]]

\* search_dedup once search has returned items, lines 114-137
dedup(items, sort_arg) ==
    LET keys == bucket_keys(items)
        picked == [i \in 1..Len(keys) |-> pick_latest(bucket(items, keys[i]))]
        ordered == IF sort_arg = "date" THEN sorted_by_pubDate(picked) ELSE picked
    IN [i \in 1..Len(ordered) |-> with_ui_fields(ordered[i])]

\* one address as the original link, as the original link at the mobile
\* host with a query, and as the portal link; another address
NewsUrls ==
    [a |-> Url("http", <<"news", "com">>, "/a", ""),
     mobile |-> Url("http", <<"M", "News", "com">>, "/a", "x=1"),
     b |-> Url("", <<"news", "com">>, "/b", "")]

\* titles: two that normalise to the same words and a third
Titles ==
    { <<"<b>", "Earnings", "</b>", " ", "[", "live", "]">>,
      <<"earnings", "!">>,
      <<"Outlook">> }

\* publication dates as the API writes them, cut after the day: the one
\* of the later day is the smaller str; an item may lack the field
PubDates ==
    { <<"M", "o", "n", ",", " ", "0", "2">>,
      <<"W", "e", "d", ",", " ", "0", "1">> }

Dated(base) ==
    base \cup {[x \in DOMAIN it \cup {"pubDate"} |->
                  IF x = "pubDate" THEN date ELSE it[x]] :
                    it \in base, date \in PubDates}

RawItems ==
    Dated({ [originallink |-> NewsUrls.a],
            [originallink |-> NewsUrls.mobile],
            [originallink |-> NoUrl, link |-> NewsUrls.a],
            [originallink |-> NewsUrls.b] }
          \cup [title : Titles])

\* what NaverNewsClient.search does, lines 93-96
NewsResponses ==
    [raises : {TRUE}, items : {<<>>}]
        \cup [raises : {FALSE},
              items : UNION {[1..n -> RawItems] : n \in 0..MaxItems}]

IdleNews ==
    /\ news_response = [raises |-> FALSE, items |-> <<>>]
    /\ sort = "sim"
    /\ deduped = <<>>
    /\ dedup_done = FALSE
    /\ dedup_raised = FALSE

InitDedup ==
    /\ news_response \in NewsResponses
    /\ sort \in {"sim", "date"}
    /\ deduped = <<>>
    /\ dedup_done = FALSE
    /\ dedup_raised = FALSE

\* NaverNewsClient.search_dedup, lines 98-137: an exception of search leaves
\* search_dedup
SearchDedup ==
    /\ ~dedup_done
    /\ IF news_response.raises
       THEN dedup_raised' = TRUE /\ UNCHANGED deduped
       ELSE /\ dedup_raised' = FALSE
            /\ deduped' = IF news_response.items = <<>> THEN <<>>
                          ELSE dedup(news_response.items, sort)
    /\ dedup_done' = TRUE
    /\ UNCHANGED <<news_response, sort>>

\* ------------------------------------------------------------ chat_server
\* an Optional value of a request body or of a session record: None is the
\* empty sequence, a value v is <<v>>
Absent == <<>>

Given(v) == <<v>>

\* truth value of an Optional[str] whose characters are a sequence, and of an
\* Optional[list]
Set(opt) == opt # Absent /\ opt[1] # <<>>

\* a or b
Or(a, b) == IF Set(a) THEN a ELSE b

\* get_session, lines 36-44; owner is the session id the record was made for
new_session(session_id) ==
    [owner |-> session_id,
     company_name |-> Absent, corp_code |-> Absent, stock_code |-> Absent,
     years |-> <<>>, reprt_codes |-> <<>>, fs_div |-> "CFS", history |-> <<>>]

\* the record of whichever session id the table holds
session_record_any(table, session_id) ==
    table[CHOOSE sid \in DOMAIN table : TRUE]

\* SESSIONS[session_id], line 45
session_record(table, session_id) == table[session_id]

\* the length taken of the raw value, nothing stripped
split_company_code_unstripped(raw) ==
    IF ~Set(raw) THEN <<Absent, Absent>>
    ELSE IF Len(raw[1]) = 8 THEN <<raw, Absent>>
    ELSE IF Len(raw[1]) = 6 THEN <<Absent, raw>>
    ELSE <<Absent, Absent>>

\* split_company_code, lines 48-56: (corp, stock)
split_company_code(raw) ==
    IF ~Set(raw) THEN <<Absent, Absent>>
    ELSE LET stripped == strip(raw[1])
         IN IF Len(stripped) = 8 THEN <<Given(stripped), Absent>>
            ELSE IF Len(stripped) = 6 THEN <<Absent, Given(stripped)>>
            ELSE <<Absent, Absent>>

\* lines 88-99 and 207-218
update_session(sess, body) ==
    LET s1 == IF Set(body.company_name)
              THEN [sess EXCEPT !.company_name = body.company_name] ELSE sess
        codes == split_company_code(body.company_code)
        s2 == IF Set(body.company_code)
              THEN [s1 EXCEPT !.corp_code = Or(codes[1], s1.corp_code),
                              !.stock_code = Or(codes[2], s1.stock_code)]
              ELSE s1
        s3 == IF body.years # Absent THEN [s2 EXCEPT !.years = body.years[1]] ELSE s2
        s4 == IF body.reprt_codes # Absent
              THEN [s3 EXCEPT !.reprt_codes = body.reprt_codes[1]] ELSE s3
    IN IF body.fs_div \in {"CFS", "OFS"} THEN [s4 EXCEPT !.fs_div = body.fs_div] ELSE s4

\* str.lower() of one character
LowerChar(c) ==
    CASE c = "N" -> "n"
      [] OTHER -> c

\* the news keyword tested before the chart keywords
intent_route_news_first(message) ==
    LET m == [i \in 1..Len(message) |-> LowerChar(message[i])]
    IN IF Contains(m, <<"nyu", "seu">>) THEN "news"
       ELSE IF Contains(m, <<"jae", "mu">>) \/ Contains(m, <<"cha", "teu">>)
       THEN "financial_chart"
       ELSE "rag_report"

\* intent_route, lines 59-68
intent_route(message) ==
    LET m == [i \in 1..Len(message) |-> LowerChar(message[i])]
    IN IF Contains(m, <<"jae", "mu">>) \/ Contains(m, <<"cha", "teu">>)
       THEN "financial_chart"
       ELSE IF Contains(m, <<"nyu", "seu">>) THEN "news"
       ELSE "rag_report"

\* int(y) for a year str: None when int raises
int_of(y) ==
    IF y # <<>> /\ \A i \in 1..Len(y) : y[i] \in Digits
    THEN Some(DigitsValue(y)) ELSE NoInt

\* lines 149-154 and 222-227: the greatest year, or the last one when a
\* year is no number
latest_year(years) ==
    IF years = <<>> THEN Absent
    ELSE IF \E i \in 1..Len(years) : int_of(years[i]) = NoInt
         THEN Given(years[Len(years)])
         ELSE LET top == {i \in 1..Len(years) :
                            \A j \in 1..Len(years) :
                                int_of(years[i])[1] >= int_of(years[j])[1]}
              IN Given(years[CHOOSE i \in top : \A j \in top : i <= j])

\* what one dart.get_finstat call followed by normalize_finstat_rows gives:
\* an exception, a summary of six nulls, a summary with data
PairOutcomes == {"raise", "null", "data"}

\* the (year, report code) pairs in the order tool_get_finstat_bulk visits
\* them, tools.py lines 38-39
RECURSIVE bulk_pairs(_, _)
bulk_pairs(years, reprt_codes) ==
    IF years = <<>> THEN <<>>
    ELSE [i \in 1..Len(reprt_codes) |-> [year |-> Head(years), reprt_code |-> reprt_codes[i]]]
            \o bulk_pairs(Tail(years), reprt_codes)

\* the loop of lines 38-50 left at the first pair that raises
tool_get_finstat_bulk_abort(years, reprt_codes, outcomes) ==
    LET pairs == bulk_pairs(years, reprt_codes)
        raising == {i \in 1..Len(pairs) : outcomes[i] = "raise"}
        last == IF raising = {} THEN Len(pairs)
                ELSE (CHOOSE i \in raising : \A j \in raising : i <= j) - 1
        pick[i \in 0..Len(pairs)] ==
            IF i = 0 THEN <<>>
            ELSE IF outcomes[i] = "data" THEN Append(pick[i - 1], pairs[i]) ELSE pick[i - 1]
    IN pick[last]

\* tool_get_finstat_bulk, tools.py lines 25-52
tool_get_finstat_bulk(years, reprt_codes, outcomes) ==
    LET pairs == bulk_pairs(years, reprt_codes)
        kept == {i \in 1..Len(pairs) : outcomes[i] = "data"}
        pick[i \in 0..Len(pairs)] ==
            IF i = 0 THEN <<>>
            ELSE IF i \in kept THEN Append(pick[i - 1], pairs[i]) ELSE pick[i - 1]
    IN pick[Len(pairs)]

\* the years and report codes a caller passes: any list of years, one report
\* code or two in either order
BulkYears == UNION {[1..n -> {"2023", "2024"}] : n \in 0..MaxYears}

BulkReprtCodes == { <<>>, <<"11011">>, <<"11011", "11012">>, <<"11012", "11011">> }

BulkArgs ==
    UNION { [years : {years}, reprt_codes : {codes},
             outcomes : [1..(Len(years) * Len(codes)) -> PairOutcomes]] :
               years \in BulkYears, codes \in BulkReprtCodes }

IdleBulk ==
    /\ bulk_args = [years |-> <<>>, reprt_codes |-> <<>>, outcomes |-> <<>>]
    /\ bulk_items = <<>>
    /\ bulk_returned = FALSE

InitBulk ==
    /\ bulk_args \in BulkArgs
    /\ bulk_items = <<>>
    /\ bulk_returned = FALSE

\* one call of tool_get_finstat_bulk, tools.py lines 25-52
GetFinstatBulk ==
    /\ ~bulk_returned
    /\ bulk_items' = tool_get_finstat_bulk(bulk_args.years, bulk_args.reprt_codes,
                                           bulk_args.outcomes)
    /\ bulk_returned' = TRUE
    /\ UNCHANGED bulk_args

\* the raw items the news API answers with when it is up
ChatNewsItems ==
    << [originallink |-> NewsUrls.a, pubDate |-> <<"M", "o", "n", ",", " ", "0", "2">>],
       [originallink |-> NewsUrls.mobile, pubDate |-> <<"W", "e", "d", ",", " ", "0", "1">>] >>

\* tool_search_news, tools.py lines 55-74: no try around search_dedup
tool_search_news(response, sort_arg) ==
    IF response.raises THEN [raised |-> TRUE, value |-> <<>>]
    ELSE Returned(IF response.items = <<>> THEN <<>> ELSE dedup(response.items, sort_arg))

\* the hits the search backend answers with when it is up
ChatHits == << [score |-> 2, doc |-> [text |-> "t1", metadata |-> "news-1"]] >>

\* tool_hybrid_search, tools.py lines 77-102, with the retriever it builds
tool_hybrid_search(sparse_resp, dense_resp, kk) ==
    LET s == ESClient_search(sparse_resp)
        d == ESClient_knn_search(dense_resp)
    IN IF s.raised \/ d.raised THEN [raised |-> TRUE, value |-> <<>>]
       ELSE Returned(retrieve(s.value, d.value, 60, kk))

\* the requests in flight: /chat runs in a worker thread, so its statements
\* interleave with those of any other request
RequestIds == {"r1", "r2"}

SessionIds == {"A", "B"}

\* messages with the chart and the news keyword, with the news keyword, with
\* neither
ChatMessages ==
    { <<"jae", "mu", " ", "nyu", "seu">>,
      <<"nyu", "seu">>,
      <<"bun", "seok">> }

\* the settings a request body carries: none, or a company name, a corp code
\* with a leading blank and two years, the greater one first
NoSettings ==
    [company_name |-> Absent, company_code |-> Absent, years |-> Absent,
     reprt_codes |-> Absent, fs_div |-> None]

FullSettings ==
    [company_name |-> Given(<<"Acme">>),
     company_code |-> Given(<<" ", "0", "0", "1", "2", "6", "3", "8", "0">>),
     years |-> Given(<< <<"2", "0", "2", "4">>, <<"2", "0", "2", "3">> >>),
     reprt_codes |-> Absent, fs_div |-> None]

Body(kind, session_id, user_message, settings) ==
    [kind |-> kind, session_id |-> session_id, user_message |-> user_message,
     company_name |-> settings.company_name, company_code |-> settings.company_code,
     years |-> settings.years, reprt_codes |-> settings.reprt_codes,
     fs_div |-> settings.fs_div]

Bodies ==
    {Body("chat", sid, m, st) :
        sid \in SessionIds, m \in ChatMessages, st \in {NoSettings, FullSettings}}
    \cup {Body("stream", sid, <<"bun", "seok">>, st) :
              sid \in SessionIds, st \in {NoSettings, FullSettings}}

\* the settings the requests of a session may carry: no company name, an
\* empty one, two names; no company code, an empty or blank one, corp codes
\* with and without a leading blank, a stock code, codes of other lengths
\* with and without a trailing blank; no fs_div, the two valid ones, another
CompanyNames == {Absent, Given(<<>>), Given(<<"Acme">>), Given(<<"Bolt">>)}

CompanyCodes ==
    { Absent, Given(<<>>), Given(<<" ">>),
      Given(<<" ", "0", "0", "1", "2", "6", "3", "8", "0">>),
      Given(<<"0", "0", "1", "6", "4", "7", "7", "9">>),
      Given(<<"0", "0", "5", "9", "3", "0">>),
      Given(<<"0", "0", "5", "9", "3", "0", "1", " ">>),
      Given(<<"1", "2", "3", "4", "5">>) }

FsDivs == {None, "CFS", "OFS", "IFRS"}

SettingsBodies ==
    [company_name : CompanyNames, company_code : CompanyCodes,
     years : {Absent}, reprt_codes : {Absent}, fs_div : FsDivs]

IdleSettings ==
    /\ sess_record = new_session("A")
    /\ sess_body = NoSettings
    /\ sess_updates = 0

\* the record get_session has just made, lines 36-44
InitSettings ==
    /\ sess_record = new_session("A")
    /\ sess_body = NoSettings
    /\ sess_updates = 0

\* lines 88-99 of chat and 207-218 of chat_stream applied by one more request
ApplyUpdate ==
    /\ sess_updates < MaxUpdates
    /\ \E body \in SettingsBodies :
          /\ sess_record' = update_session(sess_record, body)
          /\ sess_body' = body
    /\ sess_updates' = sess_updates + 1

NoPayload == [type |-> "none", data |-> <<>>, warning |-> FALSE, text |-> <<>>]

\* the settings of a session record
Settings(sess) ==
    [company_name |-> sess.company_name, corp_code |-> sess.corp_code,
     stock_code |-> sess.stock_code, years |-> sess.years]

\* the local variables of a handler before its first statement; after_update
\* remembers the settings the record held when lines 88-99 or 207-218 were done
Locals(body) ==
    [body |-> body, pc |-> "start", missing |-> FALSE, sess |-> 0,
     after_update |-> Settings(new_session(body.session_id)),
     route |-> None, corp_code |-> Absent, stock_code |-> Absent,
     year |-> Absent, company |-> Absent, years_list |-> <<>>,
     reprt_list |-> <<>>, fsd |-> None, docs |-> <<>>,
     agent_state |-> Absent, payload |-> NoPayload, raised_by |-> None]

\* a request that has entered its handler and has neither returned nor failed
InFlight(q) == reqs[q].pc \notin {"start", "done", "raised"}

\* no request has taken a step yet
NotActing == [req |-> "r1", ref |-> 0, key |-> "A", concurrent |-> FALSE]

\* the step r takes; concurrent remembers that some step was taken while
\* another request was in flight
Acting(r, ref, key) ==
    [req |-> r, ref |-> ref, key |-> key,
     concurrent |-> acting.concurrent \/ \E q \in RequestIds \ {r} : InFlight(q)]

\* chat_stream is a coroutine without an await before its return: on the
\* event loop its statements up to line 260 are not interleaved with those
\* of another chat_stream; chat runs in a worker thread and gen awaits
\* (lines 71, 191, 255)
InCoroutine(q) ==
    reqs[q].body.kind = "stream" /\ reqs[q].pc \notin {"start", "gen", "done", "raised"}

Runnable(r) ==
    reqs[r].body.kind = "stream" /\ reqs[r].pc # "gen" =>
        \A q \in RequestIds \ {r} : ~InCoroutine(q)

IdleChat ==
    /\ SESSIONS = NoArgs
    /\ heap = <<>>
    /\ reqs = [r \in RequestIds |-> Locals(Body("chat", "A", <<>>, NoSettings))]
    /\ acting = NotActing

\* the server has just started; the first request is for session A
InitChat ==
    /\ SESSIONS = NoArgs
    /\ heap = <<>>
    /\ \E b1 \in {b \in Bodies : b.session_id = "A"}, b2 \in Bodies :
          reqs = [r \in RequestIds |-> Locals(IF r = "r1" THEN b1 ELSE b2)]
    /\ acting = NotActing

\* get_session line 35
GetSessionCheck(r) ==
    LET sid == reqs[r].body.session_id
        missing == sid \notin DOMAIN SESSIONS
    IN /\ reqs[r].pc = "start"
       /\ Runnable(r)
       /\ reqs' = [reqs EXCEPT ![r].missing = missing,
                               ![r].pc = IF missing THEN "create" ELSE "return"]
       /\ acting' = Acting(r, 0, sid)
       /\ UNCHANGED <<SESSIONS, heap>>

\* get_session lines 36-44
GetSessionCreate(r) ==
    LET sid == reqs[r].body.session_id
    IN /\ reqs[r].pc = "create"
       /\ Runnable(r)
       /\ heap' = Append(heap, new_session(sid))
       /\ SESSIONS' = Override(SESSIONS, [x \in {sid} |-> Len(heap) + 1])
       /\ reqs' = [reqs EXCEPT ![r].pc = "return"]
       /\ acting' = Acting(r, Len(heap) + 1, sid)

\* get_session line 45 and the assignment of line 85 or 205
GetSessionReturn(r) ==
    LET sid == reqs[r].body.session_id
        ref == session_record(SESSIONS, sid)
    IN /\ reqs[r].pc = "return"
       /\ Runnable(r)
       /\ reqs' = [reqs EXCEPT ![r].sess = ref, ![r].pc = "update"]
       /\ acting' = Acting(r, ref, sid)
       /\ UNCHANGED <<SESSIONS, heap>>

\* lines 88-99 and 207-218
UpdateSession(r) ==
    LET ref == reqs[r].sess
    IN /\ reqs[r].pc = "update"
       /\ Runnable(r)
       /\ heap' = [heap EXCEPT ![ref] = update_session(@, reqs[r].body)]
       /\ reqs' = [reqs EXCEPT ![r].after_update = Settings(heap'[ref]),
                               ![r].pc = IF reqs[r].body.kind = "chat"
                                         THEN "append_user" ELSE "read"]
       /\ acting' = Acting(r, ref, reqs[r].body.session_id)
       /\ UNCHANGED SESSIONS

\* every entry recorded as a user entry
Entry_user(role, content) == [role |-> "user", content |-> content]

\* the dict appended to the history, lines 102, 131, 142, 186
Entry(role, content) == [role |-> role, content |-> content]

\* line 102
AppendUser(r) ==
    LET ref == reqs[r].sess
    IN /\ reqs[r].pc = "append_user"
       /\ Runnable(r)
       /\ heap' = [heap EXCEPT ![ref].history =
                        Append(@, Entry("user", reqs[r].body.user_message))]
       /\ reqs' = [reqs EXCEPT ![r].pc = "read"]
       /\ acting' = Acting(r, ref, reqs[r].body.session_id)
       /\ UNCHANGED SESSIONS

Warning(type) == [type |-> type, data |-> <<>>, warning |-> TRUE, text |-> <<>>]

\* the reads of the session record that follow: lines 104-112 for a chart,
\* 135-137 for news, 146-159 for a report, 220-231 of chat_stream
ReadSettings(r) ==
    LET ref == reqs[r].sess
        sess == heap[ref]
        route == IF reqs[r].body.kind = "chat"
                 THEN intent_route(reqs[r].body.user_message) ELSE "stream"
        years_list == sess.years
        reprt_list == IF sess.reprt_codes # <<>> THEN sess.reprt_codes
                      ELSE << <<"1", "1", "0", "1", "1">> >>
        read == [reqs[r] EXCEPT !.route = route]
    IN /\ reqs[r].pc = "read"
       /\ Runnable(r)
       /\ reqs' = [reqs EXCEPT ![r] =
            CASE route = "financial_chart" ->
                    IF Set(sess.corp_code) /\ years_list # <<>> /\ reprt_list # <<>>
                    THEN [read EXCEPT !.corp_code = sess.corp_code,
                                      !.years_list = years_list,
                                      !.reprt_list = reprt_list,
                                      !.fsd = sess.fs_div,
                                      !.pc = "fetch_chart"]
                    ELSE [read EXCEPT !.payload = Warning("chart"),
                                      !.pc = "append_assistant"]
              [] route = "news" ->
                    IF Set(sess.company_name)
                    THEN [read EXCEPT !.company = sess.company_name,
                                      !.pc = "fetch_news"]
                    ELSE [read EXCEPT !.payload = Warning("news"),
                                      !.pc = "append_assistant"]
              [] OTHER ->
                    [read EXCEPT !.corp_code = sess.corp_code,
                                 !.stock_code = sess.stock_code,
                                 !.year = latest_year(sess.years),
                                 !.company = sess.company_name,
                                 !.pc = "fetch_docs"]]
       /\ acting' = Acting(r, ref, reqs[r].body.session_id)
       /\ UNCHANGED <<SESSIONS, heap>>

\* lines 113-124: the financial API answers or fails per pair
FetchChart(r) ==
    /\ reqs[r].pc = "fetch_chart"
    /\ Runnable(r)
    /\ \E outcomes \in [1..Len(bulk_pairs(reqs[r].years_list, reqs[r].reprt_list))
                            -> PairOutcomes] :
          reqs' = [reqs EXCEPT
              ![r].payload = [type |-> "chart",
                              data |-> tool_get_finstat_bulk(reqs[r].years_list,
                                                             reqs[r].reprt_list, outcomes),
                              warning |-> FALSE, text |-> <<>>],
              ![r].pc = "append_assistant"]
    /\ acting' = Acting(r, 0, reqs[r].body.session_id)
    /\ UNCHANGED <<SESSIONS, heap>>

\* lines 138-139: the news API answers or fails; an exception leaves chat
FetchNews(r) ==
    /\ reqs[r].pc = "fetch_news"
    /\ Runnable(r)
    /\ \E response \in {[raises |-> TRUE, items |-> <<>>],
                         [raises |-> FALSE, items |-> ChatNewsItems]} :
          LET news == tool_search_news(response, "date")
          IN reqs' = [reqs EXCEPT ![r] =
                IF news.raised
                THEN [@ EXCEPT !.raised_by = "news_api", !.pc = "raised"]
                ELSE [@ EXCEPT !.payload = [type |-> "news", data |-> news.value,
                                            warning |-> FALSE, text |-> <<>>],
                               !.pc = "append_assistant"]]
    /\ acting' = Acting(r, 0, reqs[r].body.session_id)
    /\ UNCHANGED <<SESSIONS, heap>>

\* lines 160 and 232: the search backend answers or fails
FetchDocs(r) ==
    /\ reqs[r].pc = "fetch_docs"
    /\ Runnable(r)
    /\ \E response \in {[raises |-> TRUE, hits |-> <<>>],
                         [raises |-> FALSE, hits |-> ChatHits]} :
          LET found == tool_hybrid_search(response, response,
                                          IF reqs[r].body.kind = "chat" THEN 8 ELSE 6)
          IN reqs' = [reqs EXCEPT ![r] =
                IF found.raised
                THEN [@ EXCEPT !.raised_by = "search_backend", !.pc = "raised"]
                ELSE [@ EXCEPT !.docs = found.value,
                               !.pc = IF reqs[r].body.kind = "chat"
                                      THEN "build_state" ELSE "gen"]]
    /\ acting' = Acting(r, 0, reqs[r].body.session_id)
    /\ UNCHANGED <<SESSIONS, heap>>

\* lines 172-182
BuildState(r) ==
    LET ref == reqs[r].sess
        sess == heap[ref]
    IN /\ reqs[r].pc = "build_state"
       /\ Runnable(r)
       /\ reqs' = [reqs EXCEPT
              ![r].agent_state = Given(
                  [question |-> reqs[r].body.user_message,
                   company |-> sess.company_name,
                   corp_code |-> sess.corp_code,
                   stock_code |-> sess.stock_code,
                   retrieved_docs |-> <<>>,
                   answer |-> Absent,
                   route |-> Absent,
                   briefing_year |-> reqs[r].year,
                   briefing_year_mode |-> IF Set(reqs[r].year)
                                          THEN "selected" ELSE "latest"]),
              ![r].pc = "invoke"]
       /\ acting' = Acting(r, ref, reqs[r].body.session_id)
       /\ UNCHANGED <<SESSIONS, heap>>

\* what workflow.invoke does: it raises, or its result has no answer, or an
\* answer
InvokeOutcomes == {"raise", "none", "answer"}

\* lines 183-184 and the payload of line 187
Invoke(r) ==
    /\ reqs[r].pc = "invoke"
    /\ Runnable(r)
    /\ \E outcome \in InvokeOutcomes :
          reqs' = [reqs EXCEPT ![r] =
              IF outcome = "raise"
              THEN [@ EXCEPT !.raised_by = "workflow", !.pc = "raised"]
              ELSE [@ EXCEPT !.payload =
                        [type |-> "report", data |-> reqs[r].docs, warning |-> FALSE,
                         text |-> IF outcome = "answer" THEN <<"answer">>
                                  ELSE <<"no", "result">>],
                             !.pc = "append_assistant"]]
    /\ acting' = Acting(r, 0, reqs[r].body.session_id)
    /\ UNCHANGED <<SESSIONS, heap>>

\* the return without the assistant entry
AppendAssistant_skip(r) ==
    /\ reqs[r].pc = "append_assistant"
    /\ Runnable(r)
    /\ reqs' = [reqs EXCEPT ![r].pc = "done"]
    /\ acting' = Acting(r, reqs[r].sess, reqs[r].body.session_id)
    /\ UNCHANGED <<SESSIONS, heap>>

\* lines 131, 142 and 186, and the return that follows
AppendAssistant(r) ==
    LET ref == reqs[r].sess
        content == CASE reqs[r].payload.type = "chart" -> <<"[", "chart", "]">>
                     [] reqs[r].payload.type = "news" -> <<"[", "news", "]">>
                     [] OTHER -> reqs[r].payload.text
    IN /\ reqs[r].pc = "append_assistant"
       /\ Runnable(r)
       /\ heap' = [heap EXCEPT ![ref].history = Append(@, Entry("assistant", content))]
       /\ reqs' = [reqs EXCEPT ![r].pc = "done"]
       /\ acting' = Acting(r, ref, reqs[r].body.session_id)
       /\ UNCHANGED SESSIONS

\* chat_stream.gen reading the company name for the prompt, line 248
Gen(r) ==
    LET ref == reqs[r].sess
    IN /\ reqs[r].pc = "gen"
       /\ Runnable(r)
       /\ reqs' = [reqs EXCEPT ![r].company = heap[ref].company_name,
                               ![r].pc = "done"]
       /\ acting' = Acting(r, ref, reqs[r].body.session_id)
       /\ UNCHANGED <<SESSIONS, heap>>

\* the events of gen, each the text after "data: " (lines 246, 254, 256, 258)
StatusLine == "status: context ready"

EndMarker == "[END]"

ErrorLine == "stream error"

\* the content of the chunk taken even when the chunk has a text
chunk_text_content_only(chunk) == chunk.content

\* line 252: getattr(chunk, "text", None) or getattr(chunk, "content", "")
chunk_text(chunk) == IF Truthy(chunk.text) THEN chunk.text ELSE chunk.content

\* chunks with a content only, with a text only, with neither, and one whose
\* content reads like the end marker
Chunks ==
    { [text |-> None, content |-> "a"],
      [text |-> "b", content |-> ""],
      [text |-> "", content |-> ""],
      [text |-> None, content |-> "[END]"] }

Streams ==
    [chunks : UNION {[1..n -> Chunks] : n \in 0..MaxChunks}, raises : BOOLEAN]

IdleGen ==
    /\ gen_stream = [chunks |-> <<>>, raises |-> FALSE]
    /\ gen_pos = 0
    /\ gen_events = <<>>
    /\ gen_pc = "idle"

\* the StreamingResponse of line 260 starts to iterate gen()
InitGen ==
    /\ gen_stream \in Streams
    /\ gen_pos = 0
    /\ gen_events = <<>>
    /\ gen_pc = "status"

\* line 246
GenStatus ==
    /\ gen_pc = "status"
    /\ gen_events' = Append(gen_events, StatusLine)
    /\ gen_pc' = "stream"
    /\ UNCHANGED <<gen_stream, gen_pos>>

\* one turn of the loop of lines 251-255
GenChunk ==
    /\ gen_pc = "stream"
    /\ gen_pos < Len(gen_stream.chunks)
    /\ LET text == chunk_text(gen_stream.chunks[gen_pos + 1])
       IN gen_events' = IF Truthy(text) THEN Append(gen_events, text) ELSE gen_events
    /\ gen_pos' = gen_pos + 1
    /\ UNCHANGED <<gen_stream, gen_pc>>

\* the stream is exhausted: line 256
GenEnd ==
    /\ gen_pc = "stream"
    /\ gen_pos = Len(gen_stream.chunks)
    /\ ~gen_stream.raises
    /\ gen_events' = Append(gen_events, EndMarker)
    /\ gen_pc' = "done"
    /\ UNCHANGED <<gen_stream, gen_pos>>

\* the stream raises: lines 257-258
GenError ==
    /\ gen_pc = "stream"
    /\ gen_pos = Len(gen_stream.chunks)
    /\ gen_stream.raises
    /\ gen_events' = Append(gen_events, ErrorLine)
    /\ gen_pc' = "done"
    /\ UNCHANGED <<gen_stream, gen_pos>>

\* ------------------------------------------------------------ specifications
vars == <<wfvars, rvars, fvars, nvars, svars, bvars, gvars, uvars>>

\* the variables a run of the workflow leaves alone
besidesRun == <<rvars, fvars, nvars, svars, bvars, gvars, uvars>>

IdleBesidesRun ==
    IdleRetriever /\ IdleFinstat /\ IdleNews /\ IdleChat /\ IdleBulk /\ IdleGen /\ IdleSettings

\* a run of the workflow
Init == InitRun /\ IdleBesidesRun

Next ==
    \/ RouteIntent /\ UNCHANGED besidesRun
    \/ CallModel /\ UNCHANGED besidesRun
    \/ CallTools /\ UNCHANGED besidesRun
    \/ GenerateAnswer /\ UNCHANGED besidesRun

Spec == Init /\ [][Next]_vars

\* should_continue applied to any agent state
NextEdge == ShouldContinue /\ UNCHANGED besidesRun

InitEdgeSpec == InitEdge /\ IdleBesidesRun

SpecEdge == InitEdgeSpec /\ [][NextEdge]_vars

\* one call of HybridRetriever.retrieve
besidesRetrieve == <<wfvars, fvars, nvars, svars, bvars, gvars, uvars>>

IdleBesidesRetrieve ==
    IdleRun /\ IdleFinstat /\ IdleNews /\ IdleChat /\ IdleBulk /\ IdleGen /\ IdleSettings

NextRetrieve == Retrieve /\ UNCHANGED besidesRetrieve

InitRetrieveSpec == InitRetrieve /\ IdleBesidesRetrieve

SpecRetrieve == InitRetrieveSpec /\ [][NextRetrieve]_vars

\* one call of extract_key_metrics
besidesExtract == <<wfvars, rvars, nvars, svars, bvars, gvars, uvars>>

IdleBesidesExtract ==
    IdleRun /\ IdleRetriever /\ IdleNews /\ IdleChat /\ IdleBulk /\ IdleGen /\ IdleSettings

NextExtract == ExtractKeyMetrics /\ UNCHANGED besidesExtract

InitExtractSpec == InitExtract /\ IdleBesidesExtract

SpecExtract == InitExtractSpec /\ [][NextExtract]_vars

\* one call of NaverNewsClient.search_dedup
besidesDedup == <<wfvars, rvars, fvars, svars, bvars, gvars, uvars>>

IdleBesidesDedup ==
    IdleRun /\ IdleRetriever /\ IdleFinstat /\ IdleChat /\ IdleBulk /\ IdleGen /\ IdleSettings

NextDedup == SearchDedup /\ UNCHANGED besidesDedup

InitDedupSpec == InitDedup /\ IdleBesidesDedup

SpecDedup == InitDedupSpec /\ [][NextDedup]_vars

\* two requests to the chat server in flight
besidesChat == <<wfvars, rvars, fvars, nvars, bvars, gvars, uvars>>

IdleBesidesChat ==
    IdleRun /\ IdleRetriever /\ IdleFinstat /\ IdleNews /\ IdleBulk /\ IdleGen /\ IdleSettings

NextChat ==
    \/ \E r \in RequestIds : GetSessionCheck(r) /\ UNCHANGED besidesChat
    \/ \E r \in RequestIds : GetSessionCreate(r) /\ UNCHANGED besidesChat
    \/ \E r \in RequestIds : GetSessionReturn(r) /\ UNCHANGED besidesChat
    \/ \E r \in RequestIds : UpdateSession(r) /\ UNCHANGED besidesChat
    \/ \E r \in RequestIds : AppendUser(r) /\ UNCHANGED besidesChat
    \/ \E r \in RequestIds : ReadSettings(r) /\ UNCHANGED besidesChat
    \/ \E r \in RequestIds : FetchChart(r) /\ UNCHANGED besidesChat
    \/ \E r \in RequestIds : FetchNews(r) /\ UNCHANGED besidesChat
    \/ \E r \in RequestIds : FetchDocs(r) /\ UNCHANGED besidesChat
    \/ \E r \in RequestIds : BuildState(r) /\ UNCHANGED besidesChat
    \/ \E r \in RequestIds : Invoke(r) /\ UNCHANGED besidesChat
    \/ \E r \in RequestIds : AppendAssistant(r) /\ UNCHANGED besidesChat
    \/ \E r \in RequestIds : Gen(r) /\ UNCHANGED besidesChat

InitChatSpec == InitChat /\ IdleBesidesChat

SpecChat == InitChatSpec /\ [][NextChat]_vars

\* one call of tool_get_finstat_bulk
besidesBulk == <<wfvars, rvars, fvars, nvars, svars, gvars, uvars>>

IdleBesidesBulk ==
    IdleRun /\ IdleRetriever /\ IdleFinstat /\ IdleNews /\ IdleChat /\ IdleGen /\ IdleSettings

NextBulk == GetFinstatBulk /\ UNCHANGED besidesBulk

InitBulkSpec == InitBulk /\ IdleBesidesBulk

SpecBulk == InitBulkSpec /\ [][NextBulk]_vars

\* the generator of one /chat/stream response
besidesGen == <<wfvars, rvars, fvars, nvars, svars, bvars, uvars>>

IdleBesidesGen ==
    IdleRun /\ IdleRetriever /\ IdleFinstat /\ IdleNews /\ IdleChat /\ IdleBulk /\ IdleSettings

NextGen ==
    \/ GenStatus /\ UNCHANGED besidesGen
    \/ GenChunk /\ UNCHANGED besidesGen
    \/ GenEnd /\ UNCHANGED besidesGen
    \/ GenError /\ UNCHANGED besidesGen

InitGenSpec == InitGen /\ IdleBesidesGen

SpecGen == InitGenSpec /\ [][NextGen]_vars

\* a sequence of requests updating one session record
besidesSettings == <<wfvars, rvars, fvars, nvars, svars, bvars, gvars>>

IdleBesidesSettings ==
    IdleRun /\ IdleRetriever /\ IdleFinstat /\ IdleNews /\ IdleChat /\ IdleBulk /\ IdleGen

NextSettings == ApplyUpdate /\ UNCHANGED besidesSettings

InitSettingsSpec == InitSettings /\ IdleBesidesSettings

SpecSettings == InitSettingsSpec /\ [][NextSettings]_vars

\* ------------------------------------------------------------ properties
InRun == node \in {"route_intent", "call_model", "call_tools", "generate_answer",
                   "END", "GraphRecursionError"}

\* the tool calls the last call_tools step was asked to execute
RequestedCalls == prev_state["messages"][Len(prev_state["messages"])].tool_calls

\* the messages the last call_tools step appended
Appended ==
    SubSeq(state["messages"], Len(prev_state["messages"]) + 1, Len(state["messages"]))

\* every model response so far requested tool calls
AlwaysRequestsTools ==
    \A i \in 1..Len(state["messages"]) :
        state["messages"][i].type = "ai" => state["messages"][i].tool_calls # <<>>

\* C1: when every model response requests further tool calls, the run goes
\* to generate_answer right after the second call_model and call_model never
\* runs a third time.
C1_AnswerAfterTwoModelCalls ==
    (InRun /\ AlwaysRequestsTools) =>
        /\ callModelCount <= 2
        /\ (callModelCount = 2 /\ last_node = "call_model") => node = "generate_answer"

\* C2: the iteration counter of the agent state, in the channels and in
\* call_model's own copy, is between 0 and 2 in every state of a run.
C2_IterationsWithinCap ==
    InRun =>
        /\ Get(state, "iterations", 0) \in 0..IterationCap
        /\ local_iterations \in 0..IterationCap

C2_Witness ==
    /\ InRun
    /\ callModelCount >= 2
    /\ "iterations" \in DOMAIN state
    /\ state["iterations"] <= IterationCap
    /\ local_iterations >= 1

\* C3: every run ends, and it ends at END with generate_answer executed
\* exactly once.
C3_EndsWithOneAnswer ==
    /\ generateAnswerCount <= 1
    /\ node \in {"END", "GraphRecursionError"} =>
          (node = "END" /\ generateAnswerCount = 1)

\* C4: after call_model the edge goes to generate_answer when the counter
\* is >= 2, whatever the last response asks for; below 2 it goes to
\* call_tools iff the last response carries at least one tool call, and to
\* generate_answer otherwise.
C4_EdgeChoice ==
    last_node = "should_continue" =>
        LET last_message == state["messages"][Len(state["messages"])]
            pending == last_message.type = "ai" /\ Len(last_message.tool_calls) >= 1
        IN /\ Get(state, "iterations", 0) >= 2 => node = "generate_answer"
           /\ Get(state, "iterations", 0) < 2 => (node = "call_tools" <=> pending)
           /\ Get(state, "iterations", 0) < 2 /\ ~pending => node = "generate_answer"

C4_Witness ==
    /\ last_node = "should_continue"
    /\ Get(state, "iterations", 0) >= 2
    /\ state["messages"][Len(state["messages"])].tool_calls # <<>>
    /\ node = "generate_answer"

\* C5: a call_tools step asked for n tool calls appends exactly n tool
\* messages, the i-th carrying the id and name of the i-th call; a call that
\* raises (every call of an unregistered tool does) gets the error text and
\* the other calls are still executed and answered with their own result;
\* the step hands over to call_model, the run ending there only by the
\* recursion limit of the graph.
C5_OneMessagePerCall ==
    last_node = "call_tools" =>
        /\ Len(state["messages"]) = Len(prev_state["messages"]) + Len(RequestedCalls)
        /\ Len(tool_log) = Len(RequestedCalls)
        /\ \A i \in 1..Len(prev_state["messages"]) :
              /\ state["messages"][i].id = prev_state["messages"][i].id
              /\ state["messages"][i].type = prev_state["messages"][i].type
        /\ \A i \in 1..Len(RequestedCalls) :
              /\ Appended[i].type = "tool"
              /\ Appended[i].tool_call_id = RequestedCalls[i].id
              /\ Appended[i].name = RequestedCalls[i].name
              /\ tool_log[i].call = RequestedCalls[i]
              /\ RequestedCalls[i].name \notin tools => tool_log[i].raised
              /\ tool_log[i].raised =>
                    Appended[i].content_len =
                        16 + NameLen(RequestedCalls[i].name) + 2 + tool_log[i].len
              /\ ~tool_log[i].raised =>
                    /\ tool_log[i].called
                    /\ Appended[i].content_len = Min(tool_log[i].len, ToolBudget)
        /\ \/ node = "call_model"
           \/ node = "GraphRecursionError" /\ step = RecursionLimit

C5_Witness ==
    /\ last_node = "call_tools"
    /\ Len(tool_log) = 2
    /\ tool_log[1].raised
    /\ ~tool_log[2].raised
    /\ Len(Appended) = 2
    /\ node = "call_model"

\* C6: every message a call_tools step appends, result or error placeholder,
\* has a content of at most 500 characters.
C6_ContentWithinBudget ==
    last_node = "call_tools" =>
        \A i \in 1..Len(Appended) : Appended[i].content_len <= ToolBudget

\* the state value call_tools injects for an argument
StateValueFor(key) ==
    CASE key = "corp_code" -> Get(prev_state, "corp_code", None)
      [] key = "stock_code" -> Get(prev_state, "stock_code", None)
      [] key = "year" -> Get(prev_state, "briefing_year", None)
      [] key = "corp_name" -> Get(prev_state, "company", None)

ArgKeys == {"corp_code", "stock_code", "year", "corp_name"}

\* C7: an argument a tool is invoked with differs from what the model sent
\* only if the model omitted it (absent or empty) and the state holds a
\* value, which is then the value passed; an argument the model gave is
\* passed as given, and nothing is added when the state holds no value.
C7_InjectionOnlyWhenOmitted ==
    last_node = "call_tools" =>
        \A i \in 1..Len(tool_log) : \A key \in ArgKeys :
            LET sent == tool_log[i].call.args
                passed == tool_log[i].args
                changed == \/ (key \in DOMAIN sent) # (key \in DOMAIN passed)
                           \/ Get(sent, key, None) # Get(passed, key, None)
            IN /\ changed => /\ ~Truthy(Get(sent, key, None))
                             /\ Truthy(StateValueFor(key))
                             /\ key \in DOMAIN passed
                             /\ passed[key] = StateValueFor(key)
               /\ Truthy(Get(sent, key, None)) => ~changed
               /\ ~Truthy(StateValueFor(key)) => ~changed

C7_Witness ==
    /\ last_node = "call_tools"
    /\ \E i \in 1..Len(tool_log) :
          /\ "corp_code" \notin DOMAIN tool_log[i].call.args
          /\ "corp_code" \in DOMAIN tool_log[i].args
          /\ tool_log[i].args["corp_code"] = prev_state["corp_code"]
          /\ "stock_code" \notin DOMAIN tool_log[i].args

\* the questions of Questions in which Python finds one of the keywords:
\* "PER" in "SUPER", "매출" in "매출 전망"; none in "per P ER"
QuestionsWithKeyword ==
    { <<"S", "U", "P", "E", "R">>, <<"mae", "chul", " ", "jeon", "mang">> }

\* C8: route_intent sets route to "company" when the company name is
\* non-empty; without a company name it sets "company" when the question
\* contains a keyword and "general" otherwise.
C8_Route ==
    last_node = "route_intent" =>
        state["route"] =
            IF state["company"] \notin {None, ""} THEN "company"
            ELSE IF state["question"] \in QuestionsWithKeyword THEN "company"
            ELSE "general"

C8_Witness ==
    /\ last_node = "route_intent"
    /\ state["company"] = "Acme"
    /\ state["question"] \notin QuestionsWithKeyword
    /\ state["route"] = "company"

\* the keys of the agent state that route_intent leaves as they were, given
\* the keys it may write
RouteIntentFrame(written) ==
    \A key \in (DOMAIN state \cup DOMAIN prev_state) \ written :
        /\ key \in DOMAIN state
        /\ key \in DOMAIN prev_state
        /\ state[key] = prev_state[key]

\* C9 (as claimed): route_intent changes no field of the agent state other
\* than route.
C9_OnlyRouteWritten ==
    last_node = "route_intent" => RouteIntentFrame({"route"})

\* C9 (amended): route_intent changes no field other than route, messages
\* and iterations: an empty history becomes the one initial human message, a
\* non-empty history is kept, and the counter is set to 0.
C9_RouteMessagesIterationsWritten ==
    last_node = "route_intent" =>
        /\ RouteIntentFrame({"route", "messages", "iterations"})
        /\ state["iterations"] = 0
        /\ IF prev_state["messages"] = <<>>
           THEN Len(state["messages"]) = 1 /\ state["messages"][1].type = "human"
           ELSE state["messages"] = prev_state["messages"]

C9_Witness ==
    /\ last_node = "route_intent"
    /\ state["route"] = "general"
    /\ prev_state["messages"] = <<>>
    /\ Len(state["messages"]) = 1
    /\ "iterations" \notin DOMAIN prev_state

\* C10: a returned document whose text is among the sparse hits is one of
\* them, scored alpha*sparse_score + (1-alpha)*dense_score with dense_score
\* the score of a dense hit of the same text, or 0 without such a hit; any
\* other returned document is a dense hit scored (1-alpha)*dense_score with
\* sparse_score 0.  Scores are in hundredths.
C10_HybridScore ==
    retrieved =>
        \A i \in 1..Len(results) :
            LET r == results[i]
                sameText == {j \in 1..Len(dense) : dense[j].doc.text = r.text}
            IN IF \E j \in 1..Len(sparse) : sparse[j].doc.text = r.text
               THEN /\ \E j \in 1..Len(sparse) :
                          /\ sparse[j].doc = [text |-> r.text, metadata |-> r.metadata]
                          /\ r.sparse_score = sparse[j].score
                    /\ r.hybrid_score = alpha * r.sparse_score + (100 - alpha) * r.dense_score
                    /\ IF sameText = {} THEN r.dense_score = 0
                       ELSE \E j \in sameText : r.dense_score = dense[j].score
               ELSE /\ r.sparse_score = 0
                    /\ \E j \in 1..Len(dense) :
                          /\ dense[j].doc = [text |-> r.text, metadata |-> r.metadata]
                          /\ r.dense_score = dense[j].score
                    /\ r.hybrid_score = (100 - alpha) * r.dense_score

C10_Witness ==
    /\ retrieved
    /\ \E i, j \in 1..Len(results) :
          /\ results[i].sparse_score > 0
          /\ results[i].dense_score > 0
          /\ results[j].sparse_score = 0
          /\ results[j].dense_score > 0
          /\ results[j].hybrid_score > 0

\* C11: the list retrieve returns is sorted by hybrid_score in non-increasing
\* order, has min(k, number of merged candidates) entries, and these are
\* candidates of the merge none of which scores below a candidate left out.
C11_TopKSorted ==
    (retrieved /\ ~retrieve_raised) =>
        LET merged == merge(sparse, dense, alpha)
        IN /\ \A i \in 1..(Len(results) - 1) :
                 results[i].hybrid_score >= results[i + 1].hybrid_score
           /\ Len(results) <= k
           /\ Len(results) = Min(k, Len(merged))
           /\ \E f \in [1..Len(results) -> 1..Len(merged)] :
                 /\ \A i, j \in 1..Len(results) : i # j => f[i] # f[j]
                 /\ \A i \in 1..Len(results) : results[i] = merged[f[i]]
                 /\ \A j \in 1..Len(merged) :
                        (\A i \in 1..Len(results) : f[i] # j) =>
                            \A i \in 1..Len(results) :
                                merged[j].hybrid_score <= results[i].hybrid_score

\* more candidates than k, of different scores, so that the cut drops one
C11_Witness ==
    /\ retrieved
    /\ ~retrieve_raised
    /\ Len(merge(sparse, dense, alpha)) > k
    /\ Len(results) = k
    /\ k > 1
    /\ results[1].hybrid_score > results[k].hybrid_score

ScoredDense == [i \in 1..Len(dense) |->
                  RetrievedDoc(dense[i].doc.text, dense[i].doc.metadata,
                               (100 - alpha) * dense[i].score, 0, dense[i].score)]

\* C12: when the sparse search returned an empty list, the result is the
\* dense hits, each scored (1-alpha)*dense_score with sparse_score 0, sorted
\* by that score in non-increasing order (hits of equal score in the order of
\* the dense list) and cut to k.
C12_DenseOnlyPath ==
    (retrieved /\ ~retrieve_raised /\ sparse = <<>>) =>
        /\ Len(results) = Min(k, Len(dense))
        /\ \A i \in 1..(Len(results) - 1) :
              results[i].hybrid_score >= results[i + 1].hybrid_score
        /\ \E f \in [1..Len(results) -> 1..Len(dense)] :
              /\ \A i, j \in 1..Len(results) : i # j => f[i] # f[j]
              /\ \A i \in 1..Len(results) : results[i] = ScoredDense[f[i]]
              /\ \A i, j \in 1..Len(results) :
                    (i < j /\ results[i].hybrid_score = results[j].hybrid_score)
                        => f[i] < f[j]
              /\ \A j \in 1..Len(dense) :
                    (\A i \in 1..Len(results) : f[i] # j) =>
                        \A i \in 1..Len(results) :
                            ScoredDense[j].hybrid_score <= results[i].hybrid_score

\* an empty sparse list the backend itself answered with, and dense hits of
\* different scores returned in the other order
C12_Witness ==
    /\ retrieved
    /\ ~sparse_response.raises
    /\ sparse = <<>>
    /\ Len(dense) > 1
    /\ dense[1].score < dense[2].score
    /\ Len(results) > 1
    /\ results[1].dense_score > results[2].dense_score
    /\ alpha < 100

\* C13: a raising Elasticsearch query does not make retrieve raise: a raising
\* sparse query gives an empty sparse list and the result is the dense hits
\* scored (1-alpha)*dense_score, a raising dense query gives an empty dense
\* list and the result is the sparse hits scored alpha*sparse_score.
C13_BackendFailureNonFatal ==
    retrieved =>
        /\ ~retrieve_raised
        /\ sparse_response.raises =>
              /\ sparse = <<>>
              /\ Len(results) = Min(k, Len(dense))
              /\ \A i \in 1..Len(results) :
                    /\ results[i].sparse_score = 0
                    /\ \E j \in 1..Len(dense) : results[i] = ScoredDense[j]
        /\ dense_response.raises =>
              /\ dense = <<>>
              /\ \A i \in 1..Len(results) :
                    /\ results[i].dense_score = 0
                    /\ results[i].hybrid_score = alpha * results[i].sparse_score

\* the sparse query raised and dense hits came back
C13_Witness ==
    /\ retrieved
    /\ sparse_response.raises
    /\ ~dense_response.raises
    /\ Len(results) > 0
    /\ results[1].dense_score > 0

\* C14: no two documents of the list retrieve returns have the same text.
C14_NoTwoSameText ==
    (retrieved /\ ~retrieve_raised) =>
        \A i, j \in 1..Len(results) :
            i # j => results[i].text # results[j].text

\* the rows whose account name matches the field: they enter its branch of
\* the chain
MatchingRows(f) ==
    {i \in 1..Len(rows) :
        /\ Branch(account_name(rows[i])) # 0
        /\ FieldChain[Branch(account_name(rows[i]))].field = f}

First(idx) == CHOOSE i \in idx : \A j \in idx : i <= j

AmountsOf(row) ==
    Amounts(parse_amount(row, "thstrm_amount"), parse_amount(row, "frmtrm_amount"),
            parse_amount(row, "bfefrmtrm_amount"))

\* C15: each field of the summary holds the amounts of the first row whose
\* account name matches the field.
C15_FirstMatchingRow ==
    extracted =>
        \A f \in Fields :
            MatchingRows(f) # {} =>
                summary[f] = AmountsOf(rows[First(MatchingRows(f))])

\* the matching rows that have a current-period amount that parses
PopulatingRows(f) ==
    {i \in MatchingRows(f) : parse_amount(rows[i], "thstrm_amount") # NoInt}

\* C15, amended: each field of the summary holds the amounts of the first row
\* that enters the branch of the field (its account name matches the field
\* and no field tested earlier) and whose current-period amount parses to a
\* number; rows after it change nothing, and without such a row the field
\* stays empty.
C15_FirstParsableRow ==
    extracted =>
        \A f \in Fields :
            IF PopulatingRows(f) = {}
            THEN summary[f] = Amounts(NoInt, NoInt, NoInt)
            ELSE summary[f] = AmountsOf(rows[First(PopulatingRows(f))])

\* two rows of one field with different amounts that both parse: the first
\* one's is kept
C15_Witness ==
    /\ extracted
    /\ \E f \in Fields :
          /\ Cardinality(PopulatingRows(f)) > 1
          /\ \E i \in PopulatingRows(f) :
                /\ i # First(PopulatingRows(f))
                /\ AmountsOf(rows[i]).th # summary[f].th
          /\ summary[f].th = Some(1200)

\* the raw items whose canonical URL is canon
RawGroup(canon) ==
    {i \in 1..Len(news_response.items) : item_canon(news_response.items[i]) = canon}

\* the output item without the three fields search_dedup adds is the raw item
IsRaw(out, raw) ==
    /\ DOMAIN out = DOMAIN raw \cup {"title_norm", "description_clean", "canonical_url"}
    /\ \A x \in DOMAIN raw : out[x] = raw[x]

ExternalFetches == {"financial_api", "news_api", "search_backend"}

\* C17: no request to /chat ends with an exception caused by a failure of the
\* financial API, of the news API or of the search backend.
C17_FetchFailureNeverPropagates ==
    \A r \in RequestIds : reqs[r].raised_by \notin ExternalFetches

\* C20: a step of a request for session id A indexes the session table with
\* A only, reads and writes only records made for A, leaves the table entry
\* of every other session id and the local variables (the agent state among
\* them) of every other request unchanged.
C20_SessionIsolation ==
    [][LET r == acting'.req
           sid == reqs[r].body.session_id
       IN /\ acting'.key = sid
          /\ acting'.ref # 0 => heap'[acting'.ref].owner = sid
          /\ \A o \in 1..Len(heap) : heap'[o] # heap[o] => heap[o].owner = sid
          /\ \A o \in (Len(heap) + 1)..Len(heap') : heap'[o].owner = sid
          /\ \A s \in DOMAIN SESSIONS' :
                (s \notin DOMAIN SESSIONS \/ SESSIONS'[s] # Get(SESSIONS, s, 0)) => s = sid
          /\ \A q \in RequestIds \ {r} : reqs'[q] = reqs[q]
          /\ reqs'[r].agent_state # Absent =>
                /\ reqs'[r].agent_state[1].question = reqs[r].body.user_message
                /\ reqs'[r].agent_state[1].retrieved_docs = <<>>]_vars

\* a /chat report request for A that set a company and a /chat/stream request
\* for B that set none have both finished, interleaved: B's record has no
\* company and an empty history, A's has both entries
C20_Witness ==
    /\ reqs["r1"].body.session_id = "A"
    /\ reqs["r2"].body.session_id = "B"
    /\ reqs["r1"].pc = "done"
    /\ reqs["r2"].pc = "done"
    /\ reqs["r1"].agent_state # Absent
    /\ reqs["r2"].body.kind = "stream"
    /\ SESSIONS["A"] = 2
    /\ SESSIONS["B"] = 1
    /\ Set(heap[2].company_name)
    /\ ~Set(heap[1].company_name)
    /\ Len(heap[2].history) = 2
    /\ heap[1].history = <<>>

\* C18: in one run no tool call that reached its tool and failed is followed
\* by an execution of the same tool with the same arguments.
C18_NoFailureRetried ==
    \A i, j \in 1..Len(run_log) :
        (i < j /\ run_log[i].called /\ run_log[i].raised) =>
            ~(/\ run_log[j].called
              /\ run_log[j].call.name = run_log[i].call.name
              /\ run_log[j].args = run_log[i].args)

\* C19: the financial API is called only with a corp code and a year in the
\* arguments passed (given by the model or injected); without one of them it
\* is not called, the run goes on with a message for the call, and the
\* financial summary of the state is not written.
C19_FetchOnlyWithCodeAndYear ==
    last_node = "call_tools" =>
        \A i \in 1..Len(tool_log) :
            LET e == tool_log[i]
                available == /\ Truthy(Get(e.args, "corp_code", None))
                             /\ Truthy(Get(e.args, "year", None))
            IN e.call.name = get_financial_data =>
                  /\ e.called => available
                  /\ ~available =>
                        /\ ~e.called
                        /\ node \in {"call_model", "GraphRecursionError"}
                        /\ \E m \in 1..Len(state["messages"]) :
                              /\ state["messages"][m].type = "tool"
                              /\ state["messages"][m].tool_call_id = e.call.id
                        /\ state["financial"].by # e.call.id

\* a request that has read the settings it answers with (lines 104-159, 220-231)
HasRead(r) ==
    reqs[r].pc \in {"fetch_chart", "fetch_news", "fetch_docs", "build_state",
                    "invoke", "append_assistant", "gen", "done", "raised"}

\* the request answers with a company name other than the one the record held
\* when the request had finished its own update
AnswersFromLaterWrite(r) ==
    /\ HasRead(r)
    /\ reqs[r].route \in {"news", "rag_report", "stream"}
    /\ reqs[r].payload.warning = FALSE
    /\ reqs[r].company # reqs[r].after_update.company_name

\* requests that have appended their user entry to the record (line 102)
UserEntryAppended(ref) ==
    {r \in RequestIds : /\ reqs[r].body.kind = "chat"
                        /\ reqs[r].sess = ref
                        /\ HasRead(r) \/ reqs[r].pc = "read"}

TwoUsersInARow(history) ==
    \E i \in 1..(Len(history) - 1) :
        history[i].role = "user" /\ history[i + 1].role = "user"

\* C21: the session record is shared without a lock by the requests of one
\* session id: a request answers with settings other than those it left in the
\* record only when another request of the same session id has written the
\* record, and a history holds two user entries in a row only when two /chat
\* requests of that session have both appended theirs; both do happen
C21_RaceOnSessionRecord ==
    /\ \A r \in RequestIds :
          AnswersFromLaterWrite(r) =>
              \E q \in RequestIds \ {r} :
                  /\ reqs[q].body.session_id = reqs[r].body.session_id
                  /\ reqs[q].sess = reqs[r].sess
                  /\ Set(reqs[q].body.company_name)
                  /\ reqs[q].pc \notin {"start", "create", "return", "update"}
    /\ \A ref \in 1..Len(heap) :
          TwoUsersInARow(heap[ref].history) =>
              /\ UserEntryAppended(ref) = RequestIds
              /\ \A r, q \in RequestIds :
                    reqs[r].body.session_id = reqs[q].body.session_id

\* r1 sent no settings, finished its update, then r2 wrote the company name
\* and both appended their user entry before either assistant entry; r1 is
\* about to fetch news for the company r2 set
C21_Witness ==
    /\ reqs["r1"].body.company_name = Absent
    /\ reqs["r1"].after_update.company_name = Absent
    /\ reqs["r1"].pc = "fetch_news"
    /\ reqs["r1"].company = Given(<<"Acme">>)
    /\ reqs["r2"].body.session_id = "A"
    /\ reqs["r2"].pc = "read"
    /\ heap[reqs["r1"].sess].history =
          << Entry("user", reqs["r1"].body.user_message),
             Entry("user", reqs["r2"].body.user_message) >>

\* the payload type the message asks for: chart for a financial or chart
\* keyword, else news for the news keyword, else report
AskedType(message) ==
    LET m == [i \in 1..Len(message) |-> LowerChar(message[i])]
    IN IF Contains(m, <<"jae", "mu">>) \/ Contains(m, <<"cha", "teu">>) THEN "chart"
       ELSE IF Contains(m, <<"nyu", "seu">>) THEN "news"
       ELSE "report"

\* C22: a /chat request that completes returns a chart, news or report
\* payload chosen by the keywords of its message alone, whatever the session
\* holds; when the session lacks the company code or the years (chart) or the
\* company name (news) the payload has empty data and a warning, and the
\* request does not fail for that reason
C22_PayloadByIntent ==
    \A r \in RequestIds :
        reqs[r].body.kind = "chat" =>
            LET sess == heap[reqs[r].sess]
                asked == AskedType(reqs[r].body.user_message)
            IN /\ reqs[r].pc = "done" =>
                    /\ reqs[r].payload.type \in {"chart", "news", "report"}
                    /\ reqs[r].payload.type = asked
                    /\ (asked = "chart" /\ (~Set(sess.corp_code) \/ sess.years = <<>>)) =>
                           reqs[r].payload.warning /\ reqs[r].payload.data = <<>>
                    /\ (asked = "news" /\ ~Set(sess.company_name)) =>
                           reqs[r].payload.warning /\ reqs[r].payload.data = <<>>
                    /\ asked = "report" => ~reqs[r].payload.warning
               /\ reqs[r].pc = "raised" =>
                    /\ asked = "chart" => FALSE
                    /\ asked = "news" => Set(reqs[r].company)

\* a message with both a chart and the news keyword answered with a chart
\* warning, while the other request completed with a news warning
C22_Witness ==
    \E r, q \in RequestIds :
        /\ reqs[r].body.kind = "chat" /\ reqs[q].body.kind = "chat"
        /\ reqs[r].pc = "done" /\ reqs[q].pc = "done"
        /\ Contains(reqs[r].body.user_message, <<"jae", "mu">>)
        /\ Contains(reqs[r].body.user_message, <<"nyu", "seu">>)
        /\ reqs[r].payload = Warning("chart")
        /\ reqs[q].payload = Warning("news")

\* C23: after the n-th call_model of a run the iteration counter of the graph
\* state, which should_continue reads next, equals n
C23_CounterCountsModelCalls ==
    (last_node = "call_model" /\ node # "idle") =>
        Get(state, "iterations", 0) = callModelCount

\* the last response carries tool calls still to run
PendingToolCalls(s) ==
    LET last_message == s["messages"][Len(s["messages"])]
    IN HasToolCalls(last_message) /\ last_message.tool_calls # <<>>

\* C24: the nodes run in the order of the graph's edges: route_intent is the
\* first node and the only one run first, the node run after route_intent and
\* after call_tools is call_model, call_tools runs only right after a
\* call_model that left pending tool calls with the counter below the cap, and
\* nothing runs after generate_answer, which leaves the run at END
C24_StepOrder ==
    [][ /\ last_node = "START" => last_node' = "route_intent"
        /\ last_node' = "route_intent" => last_node = "START"
        /\ last_node = "route_intent" => last_node' = "call_model"
        /\ last_node = "call_tools" => last_node' = "call_model"
        /\ last_node' = "call_tools" =>
              /\ last_node = "call_model"
              /\ PendingToolCalls(state)
              /\ Get(state, "iterations", 0) < IterationCap
        /\ last_node' = "generate_answer" => last_node = "call_model"
        /\ last_node # "generate_answer"
        /\ last_node' = "generate_answer" => node' = "END"
      ]_vars

\* route_intent computed the general route, and call_model, call_tools and
\* call_model again have run after it
C24_Witness ==
    /\ last_node = "call_model"
    /\ callModelCount = 2
    /\ Get(state, "route", None) = "general"
    /\ Len(run_log) >= 1

\* the group key of an item: the canonical URL of originallink, else that of
\* link, else the normalized title
GroupKey(it) ==
    LET original == canonical_url(Link(it, "originallink"))
        portal == canonical_url(Link(it, "link"))
    IN IF original # NoUrl THEN [canon |-> original, title |-> <<>>]
       ELSE IF portal # NoUrl THEN [canon |-> portal, title |-> <<>>]
       ELSE [canon |-> NoUrl, title |-> normalize_title(Field(it, "title"))]

\* the position in the raw list of the first item with this key
FirstAppearance(raw, key) ==
    CHOOSE i \in 1..Len(raw) :
        /\ GroupKey(raw[i]) = key
        /\ \A j \in 1..(i - 1) : GroupKey(raw[j]) # key

\* C25: search_dedup returns one item for each group key of the raw list and
\* no two items with the same key, so never more items than the raw list and
\* none for an empty raw list; with sort "date" the publication-date strings
\* do not increase along the output, otherwise the items follow the order in
\* which their groups first appear in the raw list
C25_OnePerGroupInOrder ==
    (dedup_done /\ ~dedup_raised) =>
        LET raw == news_response.items
            out == deduped
        IN /\ {GroupKey(out[i]) : i \in 1..Len(out)} =
                  {GroupKey(raw[i]) : i \in 1..Len(raw)}
           /\ \A i, j \in 1..Len(out) :
                 i # j => GroupKey(out[i]) # GroupKey(out[j])
           /\ Len(out) <= Len(raw)
           /\ raw = <<>> => out = <<>>
           /\ \A i, j \in 1..Len(out) :
                 i < j =>
                    IF sort = "date"
                    THEN ~StrLess(Field(out[i], "pubDate"), Field(out[j], "pubDate"))
                    ELSE FirstAppearance(raw, GroupKey(out[i]))
                            < FirstAppearance(raw, GroupKey(out[j]))

\* two groups, the one that appears second carrying the greater date string:
\* it comes first under sort "date"
C25_Witness ==
    /\ dedup_done /\ ~dedup_raised
    /\ sort = "date"
    /\ Len(news_response.items) = 2
    /\ Len(deduped) = 2
    /\ GroupKey(deduped[1]) = GroupKey(news_response.items[2])
    /\ StrLess(Field(deduped[2], "pubDate"), Field(deduped[1], "pubDate"))

\* the pairs of the call whose fetch and parsing gave a summary with data,
\* as (position of the year, position of the report code)
KeptPairs ==
    {p \in (1..Len(bulk_args.years)) \X (1..Len(bulk_args.reprt_codes)) :
        bulk_args.outcomes[(p[1] - 1) * Len(bulk_args.reprt_codes) + p[2]] = "data"}

\* p is visited before q or is q: years outside, report codes inside
VisitedNotAfter(p, q) == p[1] < q[1] \/ (p[1] = q[1] /\ p[2] <= q[2])

\* C26: tool_get_finstat_bulk returns one entry for each (year, report code)
\* pair whose fetch and parsing did not raise and whose summary is not all
\* null, and no other entry; the entries are in the order of the visit, all
\* report codes of the first year, then those of the next year; a pair that
\* raises does not end the visit
C26_BulkVisitsEveryPair ==
    bulk_returned =>
        /\ Len(bulk_items) = Cardinality(KeptPairs)
        /\ \A p \in KeptPairs :
              bulk_items[Cardinality({q \in KeptPairs : VisitedNotAfter(q, p)})] =
                  [year |-> bulk_args.years[p[1]],
                   reprt_code |-> bulk_args.reprt_codes[p[2]]]

\* two years and two report codes: the first pair raises, the second has no
\* data, the third and the fourth are returned
C26_Witness ==
    /\ bulk_returned
    /\ bulk_args.years = <<"2024", "2023">>
    /\ bulk_args.reprt_codes = <<"11012", "11011">>
    /\ bulk_args.outcomes = <<"raise", "null", "data", "data">>
    /\ bulk_items = << [year |-> "2023", reprt_code |-> "11012"],
                       [year |-> "2023", reprt_code |-> "11011"] >>

\* the texts of the chunks that have one, in the order of their arrival
RECURSIVE NonEmptyTexts(_)
NonEmptyTexts(chunks) ==
    IF chunks = <<>> THEN <<>>
    ELSE LET c == Head(chunks)
             text == IF c.text \notin {None, ""} THEN c.text ELSE c.content
         IN (IF text = "" THEN <<>> ELSE <<text>>) \o NonEmptyTexts(Tail(chunks))

\* C27: gen yields the status line first, then the text of every non-empty
\* chunk in the order of arrival, and then one last event: the end marker
\* when the model stream ended, the error line and no end marker when the
\* model stream raised
C27_StreamEvents ==
    /\ gen_pc \in {"stream", "done"} =>
          gen_events[1] = StatusLine
    /\ gen_pc = "stream" =>
          gen_events = <<StatusLine>>
                          \o NonEmptyTexts(SubSeq(gen_stream.chunks, 1, gen_pos))
    /\ gen_pc = "done" =>
          /\ gen_events = <<StatusLine>> \o NonEmptyTexts(gen_stream.chunks)
                              \o <<IF gen_stream.raises THEN ErrorLine ELSE EndMarker>>
          /\ gen_events[Len(gen_events)] = EndMarker <=> ~gen_stream.raises

\* the stream delivered a chunk with a text, an empty chunk and a chunk with
\* a content, then raised: four events, the error line last
C27_Witness ==
    /\ gen_pc = "done"
    /\ gen_stream.raises
    /\ Len(gen_stream.chunks) = 3
    /\ gen_events = <<StatusLine, "b", "a", ErrorLine>>

\* the calls of the run so far that executed this tool without an exception
Successes(tool) ==
    {i \in 1..Len(run_log) : run_log[i].call.name = tool /\ ~run_log[i].raised}

\* the state field holds what the most recent successful call of the tool
\* returned, or its initial value when no call of the tool has succeeded
HoldsLatest(field, tool, initial) ==
    IF Successes(tool) = {} THEN Get(state, field, initial) = initial
    ELSE LET latest == CHOOSE i \in Successes(tool) : \A j \in Successes(tool) : j <= i
         IN state[field] = [by |-> run_log[latest].call.id,
                            strlen |-> run_log[latest].len]

\* C28: at every point of a run retrieved_docs, financial and news_items each
\* hold the result of the most recent successful call of their tool, or
\* their initial value; earlier results are replaced, not added to, and a
\* call that fails leaves its field as it was
C28_LatestResultOnly ==
    InRun =>
        /\ HoldsLatest("retrieved_docs", search_documents, EmptyList)
        /\ HoldsLatest("financial", get_financial_data, NoneResult)
        /\ HoldsLatest("news_items", search_company_news, EmptyList)

\* search_documents succeeded in one call_tools step and was called again in
\* a later step, where it failed: retrieved_docs holds the first result
C28_Witness ==
    /\ last_node = "call_tools"
    /\ \E i, j \in 1..Len(run_log) :
          /\ i < j
          /\ run_log[i].call.name = search_documents /\ ~run_log[i].raised
          /\ run_log[j].call.name = search_documents /\ run_log[j].raised
          /\ \A h \in (i + 1)..Len(run_log) :
                run_log[h].call.name = search_documents => run_log[h].raised
          /\ state["retrieved_docs"].by = run_log[i].call.id
          /\ run_log[j].call.id \div 10 > run_log[i].call.id \div 10

\* the /chat requests that hold this record and are at one of these positions
ChatRequestsAt(ref, positions) ==
    {r \in RequestIds : /\ reqs[r].body.kind = "chat"
                        /\ reqs[r].sess = ref
                        /\ reqs[r].pc \in positions}

Roles(history, role) == {i \in 1..Len(history) : history[i].role = role}

\* user, assistant, user, assistant, ...
Alternates(history) ==
    \A i \in 1..Len(history) :
        history[i].role = IF i % 2 = 1 THEN "user" ELSE "assistant"

\* C29: when the requests are processed one at a time and every request that
\* was started has returned, each session history has even length and
\* alternates user, assistant; in every case a history holds one assistant
\* entry per /chat request that returned and none for a /chat request that
\* failed after its user entry or for a /chat/stream request
C29_HistoryAlternates ==
    \A ref \in 1..Len(heap) :
        LET history == heap[ref].history
        IN /\ (~acting.concurrent /\ \A r \in RequestIds : reqs[r].pc \in {"start", "done"}) =>
                 /\ Len(history) % 2 = 0
                 /\ Alternates(history)
           /\ Cardinality(Roles(history, "assistant")) =
                 Cardinality(ChatRequestsAt(ref, {"done"}))
           /\ Cardinality(Roles(history, "user")) =
                 Cardinality(ChatRequestsAt(ref, {"read", "fetch_chart", "fetch_news",
                     "fetch_docs", "build_state", "invoke", "append_assistant",
                     "done", "raised"}))
           /\ Roles(history, "user") \cup Roles(history, "assistant") = 1..Len(history)

\* two /chat requests of one session, one after the other, both returned:
\* four entries
C29_Witness ==
    /\ ~acting.concurrent
    /\ \A r \in RequestIds : reqs[r].body.kind = "chat" /\ reqs[r].pc = "done"
    /\ reqs["r1"].sess = reqs["r2"].sess
    /\ Len(heap[reqs["r1"].sess].history) = 4

\* the record is the same but for these fields
SameBut(old, new, fields) ==
    \A f \in DOMAIN old \ fields : new[f] = old[f]

\* fs_div is valid and no name or code that was set has become empty
Sticky(old, new) ==
    /\ new.fs_div \in {"CFS", "OFS"}
    /\ Set(old.company_name) => Set(new.company_name)
    /\ Set(old.corp_code) => Set(new.corp_code)
    /\ Set(old.stock_code) => Set(new.stock_code)

\* C30 as stated: session settings are sticky, and a company_code of 8
\* characters changes only corp_code, one of 6 characters only stock_code,
\* one of any other length neither of the two
C30_StickyByLength ==
    [][ sess_updates' = sess_updates + 1 =>
          LET code == sess_body'.company_code
              length == IF code = Absent THEN 0 ELSE Len(code[1])
          IN /\ Sticky(sess_record, sess_record')
             /\ length = 8 => sess_record'.stock_code = sess_record.stock_code
             /\ length = 6 => sess_record'.corp_code = sess_record.corp_code
             /\ length \notin {6, 8} =>
                   /\ sess_record'.corp_code = sess_record.corp_code
                   /\ sess_record'.stock_code = sess_record.stock_code
      ]_vars

\* the company code without the whitespace around it
Stripped(code) == IF code = Absent THEN <<>> ELSE strip(code[1])

\* C30: session settings are sticky: fs_div is always "CFS" or "OFS"; a
\* company name, corp code or stock code that is set is never emptied; a
\* company_code that has 8 characters once the whitespace around it is
\* removed sets corp_code to these characters and leaves stock_code, one that
\* has 6 sets stock_code and leaves corp_code, any other leaves both
C30_StickyByStrippedLength ==
    [][ sess_updates' = sess_updates + 1 =>
          LET code == Stripped(sess_body'.company_code)
          IN /\ Sticky(sess_record, sess_record')
             /\ Len(code) = 8 =>
                   /\ sess_record'.corp_code = Given(code)
                   /\ sess_record'.stock_code = sess_record.stock_code
             /\ Len(code) = 6 =>
                   /\ sess_record'.stock_code = Given(code)
                   /\ sess_record'.corp_code = sess_record.corp_code
             /\ Len(code) \notin {6, 8} =>
                   /\ sess_record'.corp_code = sess_record.corp_code
                   /\ sess_record'.stock_code = sess_record.stock_code
             /\ SameBut(sess_record, sess_record',
                        {"company_name", "corp_code", "stock_code", "fs_div"})
      ]_vars

\* after a request that set a name, a corp code written with a leading blank
\* and fs_div "OFS", a second request with an empty name, a stock code and an
\* invalid fs_div has been applied
C30_Witness ==
    /\ sess_updates = 2
    /\ sess_body.company_name = Given(<<>>)
    /\ sess_body.company_code = Given(<<"0", "0", "5", "9", "3", "0">>)
    /\ sess_body.fs_div = "IFRS"
    /\ sess_record.company_name = Given(<<"Acme">>)
    /\ sess_record.corp_code = Given(<<"0", "0", "1", "2", "6", "3", "8", "0">>)
    /\ sess_record.stock_code = Given(<<"0", "0", "5", "9", "3", "0">>)
    /\ sess_record.fs_div = "OFS"
====
